---- MODULE Spec2Model ----
(***************************************************************************)
(* SmartByte sales-dialogue engine: the conversation flow manager          *)
(* (conversation_flow_manager.py), the customer identifier                 *)
(* (customer_identifier.py), the product matcher (product_matcher.py),     *)
(* the product repository (repositories.py) and the orchestrator           *)
(* RecommendationService.process_message (recommendation_service.py).      *)
(*                                                                         *)
(* A text is a sequence of lower-case words; " ".join(...) is sequence     *)
(* concatenation.  Python's `kw in text` is modelled at word level: a      *)
(* keyword is found when it is one of the words of the text.  The words    *)
(* used by the modelled messages are chosen so that no word contains a     *)
(* keyword of any list other than as the whole word.                       *)
(***************************************************************************)
EXTENDS Integers, Sequences, FiniteSets, TLC

VARIABLES
    session_exists,   \* a ChatSession row exists for the session id
    customer_type,    \* ChatSession.customer_type ("None" is NULL)
    messages,         \* ChatMessage rows of the session, in timestamp order
    recommendations,  \* Recommendation rows of the session
    catalog,          \* Product rows (read-only for the dialogue engine)
    last,             \* trace of the last process_message call
    turns,            \* number of process_message calls made
    fm_msg,           \* argument current_message of analyze_conversation_state
    fm_history,       \* argument conversation_history of analyze_conversation_state
    fm_out,           \* value returned by analyze_conversation_state
    call_args,        \* arguments of a call of find_matching_products or of
                      \* _generate_recommendation_with_guardrails
    call_result,      \* value returned by that call
    requests,         \* POST /message requests of the session and the local
                      \* variables of their handlers
    pc,               \* how far the handler of each request has run
    running           \* the request whose handler the event loop runs (0: none)

vars == <<session_exists, customer_type, messages, recommendations, catalog,
          last, turns, fm_msg, fm_history, fm_out, call_args, call_result,
          requests, pc, running>>

svc_vars == <<session_exists, customer_type, messages, recommendations, catalog,
              last, turns>>

fm_vars == <<fm_msg, fm_history, fm_out>>

fn_vars == <<call_args, call_result>>

srv_vars == <<requests, pc, running>>

-----------------------------------------------------------------------------
(* Bounds of the model *)

\* number of process_message calls of one session
MaxTurns == 2

\* length of the conversation_history handed to analyze_conversation_state
MaxHistory == 2

-----------------------------------------------------------------------------
(* Python values *)

\* Python None for a numeric field (budget_amount, min_ram, max_budget)
NoneNum == 0 - 1

\* Python None for a string field
NoneStr == "None"

Min(a, b) == IF a <= b THEN a ELSE b

Max(a, b) == IF a >= b THEN a ELSE b

\* the indices of s from i on, in order, whose element is one of words
RECURSIVE SelectIdx(_, _, _)
SelectIdx(s, words, i) ==
    IF i > Len(s) THEN <<>>
    ELSE IF s[i] \in words THEN <<i>> \o SelectIdx(s, words, i + 1)
    ELSE SelectIdx(s, words, i + 1)

\* " ".join(list of texts)
RECURSIVE Join(_)
Join(texts) ==
    IF texts = <<>> THEN <<>> ELSE Head(texts) \o Join(Tail(texts))

\* any(kw in text for kw in kws)
HasAny(text, kws) == \E i \in DOMAIN text : text[i] \in kws

-----------------------------------------------------------------------------
(* Numbers written in a text *)

\* the words that are runs of digits, with their value
NumberWords == {"16", "80", "200", "3000", "5000"}

IsNumber(w) == w \in NumberWords

NumValue(w) ==
    CASE w = "16" -> 16
      [] w = "80" -> 80
      [] w = "200" -> 200
      [] w = "3000" -> 3000
      [] w = "5000" -> 5000
      [] OTHER -> NoneNum

\* number of decimal digits of the value v
Digits(v) ==
    IF v < 0 THEN 0
    ELSE IF v < 10 THEN 1
    ELSE IF v < 100 THEN 2
    ELSE IF v < 1000 THEN 3
    ELSE IF v < 10000 THEN 4
    ELSE IF v < 100000 THEN 5
    ELSE 6

\* number of decimal digits of a run of digits
NumDigits(w) == Digits(NumValue(w))

\* the value of the first three digits of a value v of d >= 3 digits
FirstThreeOf(v, d) ==
    CASE d = 3 -> v
      [] d = 4 -> v \div 10
      [] d = 5 -> v \div 100
      [] OTHER -> v \div 1000

\* the first three digits of a run of at least three digits
FirstThree(w) == FirstThreeOf(NumValue(w), NumDigits(w))

\* the least member of a non-empty set of positions
MinOf(S) == CHOOSE k \in S : \A m \in S : k <= m

-----------------------------------------------------------------------------
(* ConversationFlowManager._is_product_related *)

product_keywords ==
    {"computer", "laptop", "desktop", "pc", "notebook", "tower",
     "מחשב", "לפטופ", "נייד", "נייח",
     "buy", "purchase", "need", "looking for", "want", "recommend",
     "קנייה", "צריך", "מחפש", "רוצה", "המלצה",
     "ram", "cpu", "gpu", "processor", "graphics", "storage",
     "זיכרון", "מעבד", "כרטיס מסך",
     "gaming", "work", "study", "office", "development", "music", "entertainment",
     "גיימינג", "עבודה", "לימודים", "משרד", "פיתוח", "מוזיקה", "בידור",
     "price", "cost", "budget", "cheap", "expensive",
     "מחיר", "תקציב", "זול", "יקר",
     "mouse", "keyboard", "monitor", "headset", "bag", "headphones",
     "עכבר", "מקלדת", "מסך", "אוזניות", "תיק", "אזניות"}

\* re.search(r'\d{3,6}', current_message): a run of at least three digits
HasNumberPattern(text) ==
    \E i \in DOMAIN text : IsNumber(text[i]) /\ NumDigits(text[i]) >= 3

\* a gate that also accepts a message because of what the history holds
is_product_related_any_turn(current_message, full_context) ==
    HasAny(full_context, product_keywords) \/ HasNumberPattern(full_context)

\* only the current message decides; full_context is not read
is_product_related(current_message, full_context) ==
    IF HasAny(current_message, product_keywords) THEN TRUE
    ELSE IF HasNumberPattern(current_message) THEN TRUE
    ELSE FALSE

-----------------------------------------------------------------------------
(* ConversationFlowManager._extract_conversation_info *)

use_case_order == <<"student", "gaming", "work", "development">>

use_case_patterns(use_case) ==
    CASE use_case = "student" ->
            {"student", "university", "college", "study", "homework",
             "סטודנט", "לימודים", "אוניברסיטה", "מכללה"}
      [] use_case = "gaming" ->
            {"gaming", "gamer", "games", "fps", "fortnite",
             "גיימר", "משחקים", "גיימינג", "חזק"}
      [] use_case = "work" ->
            {"work", "office", "business", "professional",
             "עבודה", "משרד", "עסק", "זום", "פגישות"}
      [] OTHER ->
            {"developer", "programming", "coding", "engineer",
             "מפתח", "תכנות", "מהנדס", "פיתוח", "דוקר", "docker"}

\* the buckets whose keyword set hits, in the order of the dict
RECURSIVE UseCaseKeywords(_, _)
UseCaseKeywords(text, i) ==
    IF i > Len(use_case_order) THEN <<>>
    ELSE (IF HasAny(text, use_case_patterns(use_case_order[i]))
          THEN <<use_case_order[i]>> ELSE <<>>)
         \o UseCaseKeywords(text, i + 1)

\* The regex group num = (\d{4,6}|\d{1,3}(?:[,\.\s]\d{3})+|\d{2,3}) matched
\* from word s: for each way it can match, in the order the regex tries
\* them, the value, the last word, and whether the match ends with that
\* word.  A group of the second alternative is a following word that starts
\* with three digits; the chain goes on only past a word of exactly three
\* digits.
RECURSIVE NumChains(_, _, _)
ChainStep(text, j, acc, is_number, d, first) ==
    IF ~is_number \/ d < 3 THEN <<>>
    ELSE IF d = 3
    THEN NumChains(text, j + 1, acc * 1000 + first)
         \o <<[val |-> acc * 1000 + first, end |-> j, whole |-> TRUE]>>
    ELSE <<[val |-> acc * 1000 + first, end |-> j, whole |-> FALSE]>>

NumChains(text, j, acc) ==
    IF j > Len(text) THEN <<>>
    ELSE ChainStep(text, j, acc, IsNumber(text[j]), NumDigits(text[j]),
                   FirstThree(text[j]))

\* the matches of a number word of d digits and value v at s; chains are
\* the matches that go on into the following words
MatchesOf(s, d, v, chains) ==
    (IF d >= 4 THEN <<[val |-> v, end |-> s, whole |-> TRUE]>> ELSE <<>>)
    \o (IF d <= 3 THEN chains ELSE <<>>)
    \o (IF d \in 2..3 THEN <<[val |-> v, end |-> s, whole |-> TRUE]>> ELSE <<>>)

NumMatches(text, s) ==
    IF s > Len(text) \/ ~IsNumber(text[s]) THEN <<>>
    ELSE MatchesOf(s, NumDigits(text[s]), NumValue(text[s]),
                   NumChains(text, s + 1, NumValue(text[s])))

\* the value matched at the leftmost of the positions starts
FirstMatchIn(text, starts) ==
    IF starts = {} THEN NoneNum ELSE NumMatches(text, MinOf(starts))[1].val

\* the first number after the first of the anchors
NumberAfter(text, anchors) ==
    IF anchors = <<>> THEN NoneNum
    ELSE FirstMatchIn(text, {j \in DOMAIN text :
                                j > anchors[1] /\ NumMatches(text, j) # <<>>})

\* rf'תקציב.*?{num}': the first budget word, then the first number after it
BudgetAfterAnchor(text) == NumberAfter(text, SelectIdx(text, {"תקציב"}, 1))

\* of the matches ms, those directly followed by the marker word
FollowedByMarker(text, ms) ==
    {a \in DOMAIN ms :
        ms[a].whole /\ ms[a].end + 1 <= Len(text) /\ text[ms[a].end + 1] = "ומעלה"}

\* the value of the first of the matches ms that is one of hits
FirstValue(ms, hits) == IF hits = {} THEN NoneNum ELSE ms[MinOf(hits)].val

\* the value the regex matches at s when the marker must follow
ValueBeforeMarker(text, ms) == FirstValue(ms, FollowedByMarker(text, ms))

\* the value at the leftmost position that has one
Leftmost(vals) ==
    IF \A s \in DOMAIN vals : vals[s] = NoneNum THEN NoneNum
    ELSE vals[MinOf({s \in DOMAIN vals : vals[s] # NoneNum})]

\* rf'{num}\s*ומעלה': the leftmost number directly followed by the marker
BudgetBeforeMarker(text) ==
    Leftmost([s \in DOMAIN text |-> ValueBeforeMarker(text, NumMatches(text, s))])

FirstFound(a, b) == IF a # NoneNum THEN a ELSE b

\* the budget_patterns loop: the first template that matches wins.  Of the
\* eight templates only the two whose anchor is a modelled word can match.
BudgetFromPatterns(text) ==
    FirstFound(BudgetAfterAnchor(text), BudgetBeforeMarker(text))

\* 'ומעלה' in text or 'and up' in text or 'minimum' in text
IsMinimumBudget(text) == HasAny(text, {"ומעלה", "and up", "minimum"})

tech_spec_keywords == {"gb", "ram", "ראם", "גיגה", "tb", "ssd", "hdd"}

\* the first of the numbers, given by their positions, with a value in
\* 50..50000
FirstInRange(text, numbers, ok) ==
    IF numbers = <<>> \/ HasAny(text, tech_spec_keywords) \/ ok = {} THEN NoneNum
    ELSE NumValue(text[numbers[MinOf(ok)]])

InBudgetRange(text, numbers) ==
    {k \in DOMAIN numbers :
        NumValue(text[numbers[k]]) >= 50 /\ NumValue(text[numbers[k]]) <= 50000}

BareNumbers(text, numbers) == FirstInRange(text, numbers, InBudgetRange(text, numbers))

\* re.findall(r'\b(\d{2,6})\b', text), then the first value in 50..50000
BudgetFromBareNumber(text) ==
    BareNumbers(text, SelectIdx(text, {w \in NumberWords : NumDigits(w) \in 2..6}, 1))

laptop_keywords == {"laptop", "notebook", "portable", "נייד", "לפטופ", "מחשב נייד"}

desktop_keywords == {"desktop", "tower", "pc", "נייח", "שולחני", "מחשב נייח", "מגדל"}

computer_keywords == {"computer", "computers", "pc", "מחשב", "מחשבים", "קומפיוטר"}

detected_product_type(text) ==
    IF HasAny(text, laptop_keywords) THEN "laptop"
    ELSE IF HasAny(text, desktop_keywords) THEN "desktop"
    ELSE NoneStr

detected_accessory(text) ==
    IF HasAny(text, {"headset", "headphones", "אוזניות", "אזניות"}) THEN "headset"
    ELSE IF HasAny(text, {"mouse", "עכבר"}) THEN "mouse"
    ELSE IF HasAny(text, {"keyboard", "מקלדת"}) THEN "keyboard"
    ELSE IF HasAny(text, {"monitor", "screen", "מסך", "צג"}) THEN "monitor"
    ELSE IF HasAny(text, {"bag", "backpack", "תיק", "תרמיל"}) THEN "bag"
    ELSE NoneStr

detected_brand(text) ==
    IF HasAny(text, {"lenovo", "לנובו"}) THEN "Lenovo"
    ELSE IF HasAny(text, {"dell", "דל"}) THEN "Dell"
    ELSE IF HasAny(text, {"hp", "אייץ פי", "הפ"}) THEN "HP"
    ELSE IF HasAny(text, {"asus", "אסוס"}) THEN "ASUS"
    ELSE NoneStr

\* the word at position i of the text, None past its ends
WordAt(text, i) == IF i \in DOMAIN text THEN text[i] ELSE NoneStr

\* the positions where the RAM regex matches
RamMatches(text) ==
    {i \in DOMAIN text :
        \/ /\ IsNumber(text[i])
           /\ WordAt(text, i + 1) \in {"gb", "גיגה"}
           /\ WordAt(text, i + 2) \in {"ram", "ראם"}
        \/ /\ text[i] \in {"ram", "ראם"}
           /\ IsNumber(WordAt(text, i + 1))
           /\ WordAt(text, i + 2) \in {"gb", "גיגה"}}

\* int(ram_match.group(1) or ram_match.group(2)) for the leftmost match
RamAt(text, i) ==
    IF IsNumber(text[i]) THEN NumValue(text[i]) ELSE NumValue(text[i + 1])

FirstRam(text, hits) == IF hits = {} THEN NoneNum ELSE RamAt(text, MinOf(hits))

\* (\d+)\s*(?:gb|גיגה)\s*(?:ram|ראם)|(?:ram|ראם)\s*(\d+)\s*(?:gb|גיגה)
min_ram(text) == FirstRam(text, RamMatches(text))

needs_gpu(text) == HasAny(text, {"rtx", "nvidia", "radeon", "כרטיס מסך", "גרפיקה", "gpu"})

\* the budget: of a template, ten times a minimum budget (at least 10000),
\* else of a bare number
BudgetAmount(fromPattern, minimum, bare) ==
    IF fromPattern # NoneNum
    THEN (IF minimum THEN Max(fromPattern * 10, 10000) ELSE fromPattern)
    ELSE bare

\* the info dict (lines 224-237) filled with what the text holds
conversation_info(ucs, budget, minimum, ptype, has_computer_request, accessory, brand, ram, gpu) ==
    [has_use_case |-> ucs # <<>>,
     use_case_keywords |-> ucs,
     has_budget |-> budget # NoneNum,
     budget_amount |-> budget,
     is_minimum_budget |-> minimum,
     has_product_type |-> ptype # NoneStr,
     product_type |-> ptype,
     has_brand_preference |-> brand # NoneStr,
     brand |-> brand,
     has_category |-> has_computer_request \/ accessory # NoneStr,
     category |-> IF has_computer_request THEN "computer" ELSE accessory,
     requested_accessory |-> IF has_computer_request THEN accessory ELSE NoneStr,
     has_specific_specs |-> ram # NoneNum \/ gpu,
     spec_requirements |-> [min_ram |-> ram, needs_gpu |-> gpu]]

\* the budget fields, from what the templates and the bare numbers give
info_with_budget(ucs, fromPattern, minimum_marker, bare, ptype, has_computer_request, accessory, brand, ram, gpu) ==
    conversation_info(ucs,
                      BudgetAmount(fromPattern, minimum_marker, bare),
                      fromPattern # NoneNum /\ minimum_marker,
                      ptype, has_computer_request, accessory, brand, ram, gpu)

extract_conversation_info(text) ==
    info_with_budget(UseCaseKeywords(text, 1),
                     BudgetFromPatterns(text),
                     IsMinimumBudget(text),
                     BudgetFromBareNumber(text),
                     detected_product_type(text),
                     HasAny(text, computer_keywords),
                     detected_accessory(text),
                     detected_brand(text),
                     min_ram(text),
                     needs_gpu(text))

-----------------------------------------------------------------------------
(* ConversationStage *)

GREETING == "greeting"

UNDERSTANDING_NEEDS == "understanding_needs"

CLARIFYING_BUDGET == "clarifying_budget"

CLARIFYING_PREFERENCES == "clarifying_preferences"

READY_TO_RECOMMEND == "ready_to_recommend"

RECOMMENDATION_GIVEN == "recommendation_given"

OFF_TOPIC == "off_topic"

-----------------------------------------------------------------------------
(* ConversationFlowManager._identify_missing_info *)

accessory_kinds == {"mouse", "keyboard", "headset", "bag", "monitor"}

\* a rule that asks for the product type of every request
identify_missing_info_all_slots(extracted_info) ==
    (IF ~extracted_info.has_use_case THEN <<"use_case">> ELSE <<>>)
    \o (IF ~extracted_info.has_budget THEN <<"budget">> ELSE <<>>)
    \o (IF ~extracted_info.has_product_type THEN <<"product_type">> ELSE <<>>)

identify_missing_info(extracted_info) ==
    LET is_accessory_only == extracted_info.category \in accessory_kinds
        use_case == IF ~extracted_info.has_use_case THEN <<"use_case">> ELSE <<>>
        budget == IF ~extracted_info.has_budget THEN <<"budget">> ELSE <<>>
        product_type ==
            IF ~extracted_info.has_product_type THEN <<"product_type">> ELSE <<>> IN
    IF is_accessory_only THEN use_case \o budget
    ELSE use_case \o budget \o product_type

InSeq(x, s) == \E i \in DOMAIN s : s[i] = x

-----------------------------------------------------------------------------
(* ConversationFlowManager._determine_stage *)

\* 'recommend' in content.lower() or 'ממליץ' in content or 'המלצה' in content
recommendation_markers == {"recommend", "ממליץ", "המלצה"}

has_recommended(conversation_history) ==
    \E i \in DOMAIN conversation_history :
        /\ HasAny(conversation_history[i].content, recommendation_markers)
        /\ conversation_history[i].role = "assistant"

\* a derivation that tests the missing slots before the earlier replies
determine_stage_ready_first(extracted_info, conversation_history) ==
    LET missing_info == identify_missing_info(extracted_info) IN
    IF Len(conversation_history) = 0 THEN GREETING
    ELSE IF Len(missing_info) = 0 THEN READY_TO_RECOMMEND
    ELSE IF has_recommended(conversation_history) THEN RECOMMENDATION_GIVEN
    ELSE IF InSeq("use_case", missing_info) THEN UNDERSTANDING_NEEDS
    ELSE IF InSeq("budget", missing_info) THEN CLARIFYING_BUDGET
    ELSE IF InSeq("product_type", missing_info) THEN CLARIFYING_PREFERENCES
    ELSE UNDERSTANDING_NEEDS

\* a derivation without the empty-history rule
determine_stage_no_greeting(extracted_info, conversation_history) ==
    LET missing_info == identify_missing_info(extracted_info) IN
    IF has_recommended(conversation_history) THEN RECOMMENDATION_GIVEN
    ELSE IF Len(missing_info) = 0 THEN READY_TO_RECOMMEND
    ELSE IF InSeq("use_case", missing_info) THEN UNDERSTANDING_NEEDS
    ELSE IF InSeq("budget", missing_info) THEN CLARIFYING_BUDGET
    ELSE IF InSeq("product_type", missing_info) THEN CLARIFYING_PREFERENCES
    ELSE UNDERSTANDING_NEEDS

determine_stage(extracted_info, conversation_history) ==
    LET missing_info == identify_missing_info(extracted_info) IN
    IF Len(conversation_history) = 0 THEN GREETING
    ELSE IF has_recommended(conversation_history) THEN RECOMMENDATION_GIVEN
    ELSE IF Len(missing_info) = 0 THEN READY_TO_RECOMMEND
    ELSE IF InSeq("use_case", missing_info) THEN UNDERSTANDING_NEEDS
    ELSE IF InSeq("budget", missing_info) THEN CLARIFYING_BUDGET
    ELSE IF InSeq("product_type", missing_info) THEN CLARIFYING_PREFERENCES
    ELSE UNDERSTANDING_NEEDS

-----------------------------------------------------------------------------
(* ConversationFlowManager._generate_clarifying_question                   *)
(* A fixed reply text is modelled by a word naming the template, followed  *)
(* by the recommendation markers that the text contains.                   *)

\* a question that asks for the budget before the product type
generate_clarifying_question_budget_first(missing_info, extracted_info) ==
    LET category == extracted_info.category
        is_accessory_only == category \in accessory_kinds IN
    IF InSeq("use_case", missing_info) THEN
        IF is_accessory_only
        THEN CASE category = "headset" -> <<"ask_use_case_headset">>
               [] category = "mouse" -> <<"ask_use_case_mouse">>
               [] category = "keyboard" -> <<"ask_use_case_keyboard">>
               [] category = "monitor" -> <<"ask_use_case_monitor">>
               [] OTHER -> <<"ask_use_case_bag">>
        ELSE <<"ask_use_case_computer", "המלצה">>
    ELSE IF InSeq("budget", missing_info) THEN
        IF is_accessory_only THEN <<"ask_budget_accessory">>
        ELSE <<"ask_budget">>
    ELSE IF InSeq("product_type", missing_info) THEN
        IF extracted_info.use_case_keywords # <<>>
        THEN CASE extracted_info.use_case_keywords[1] = "student" ->
                      <<"ask_product_type_student">>
               [] extracted_info.use_case_keywords[1] = "gaming" ->
                      <<"ask_product_type_gaming">>
               [] OTHER -> <<"ask_product_type_other">>
        ELSE <<"ask_product_type">>
    ELSE IF is_accessory_only THEN <<"ask_specific_accessory">>
    ELSE <<"ask_specific">>

generate_clarifying_question(missing_info, extracted_info) ==
    LET category == extracted_info.category
        is_accessory_only == category \in accessory_kinds IN
    IF InSeq("use_case", missing_info) THEN
        IF is_accessory_only
        THEN CASE category = "headset" -> <<"ask_use_case_headset">>
               [] category = "mouse" -> <<"ask_use_case_mouse">>
               [] category = "keyboard" -> <<"ask_use_case_keyboard">>
               [] category = "monitor" -> <<"ask_use_case_monitor">>
               [] OTHER -> <<"ask_use_case_bag">>
        \* "... כדי לתת לך את ההמלצה הטובה ביותר ..."
        ELSE <<"ask_use_case_computer", "המלצה">>
    ELSE IF InSeq("product_type", missing_info) THEN
        IF extracted_info.use_case_keywords # <<>>
        THEN CASE extracted_info.use_case_keywords[1] = "student" ->
                      <<"ask_product_type_student">>
               [] extracted_info.use_case_keywords[1] = "gaming" ->
                      <<"ask_product_type_gaming">>
               [] OTHER -> <<"ask_product_type_other">>
        ELSE <<"ask_product_type">>
    ELSE IF InSeq("budget", missing_info) THEN
        IF is_accessory_only THEN <<"ask_budget_accessory">>
        ELSE <<"ask_budget">>
    ELSE IF is_accessory_only THEN <<"ask_specific_accessory">>
    ELSE <<"ask_specific">>

-----------------------------------------------------------------------------
(* ConversationFlowManager.analyze_conversation_state *)

\* [msg['content'] for msg in conversation_history if msg['role'] == 'user']
RECURSIVE UserContents(_)
UserContents(history) ==
    IF history = <<>> THEN <<>>
    ELSE (IF Head(history).role = "user" THEN <<Head(history).content>> ELSE <<>>)
         \o UserContents(Tail(history))

\* a merge in which a value found in the history replaces the current one
merge_info_history_first(current_info, history_info) ==
    [current_info EXCEPT
       !.budget_amount = IF history_info.has_budget
                         THEN history_info.budget_amount ELSE @,
       !.has_budget = @ \/ history_info.has_budget,
       !.use_case_keywords = IF history_info.has_use_case
                             THEN history_info.use_case_keywords ELSE @,
       !.has_use_case = @ \/ history_info.has_use_case,
       !.product_type = IF history_info.has_product_type
                        THEN history_info.product_type ELSE @,
       !.has_product_type = @ \/ history_info.has_product_type,
       !.category = IF history_info.has_category THEN history_info.category ELSE @,
       !.has_category = @ \/ history_info.has_category,
       !.brand = IF history_info.has_brand_preference THEN history_info.brand ELSE @,
       !.has_brand_preference = @ \/ history_info.has_brand_preference]

\* lines 98-120: the gaps of the current message are filled from the history
merge_info(current_info, history_info) ==
    IF ~current_info.has_budget \/ ~current_info.has_use_case
       \/ ~current_info.has_product_type \/ ~current_info.has_category
    THEN LET b == ~current_info.has_budget /\ history_info.has_budget
             u == ~current_info.has_use_case /\ history_info.has_use_case
             p == ~current_info.has_product_type /\ history_info.has_product_type
             c == ~current_info.has_category /\ history_info.has_category
             r == ~current_info.has_brand_preference
                  /\ history_info.has_brand_preference IN
         [current_info EXCEPT
            !.budget_amount = IF b THEN history_info.budget_amount ELSE @,
            !.has_budget = IF b THEN TRUE ELSE @,
            !.use_case_keywords = IF u THEN history_info.use_case_keywords ELSE @,
            !.has_use_case = IF u THEN TRUE ELSE @,
            !.product_type = IF p THEN history_info.product_type ELSE @,
            !.has_product_type = IF p THEN TRUE ELSE @,
            !.category = IF c THEN history_info.category ELSE @,
            !.has_category = IF c THEN TRUE ELSE @,
            !.brand = IF r THEN history_info.brand ELSE @,
            !.has_brand_preference = IF r THEN TRUE ELSE @]
    ELSE current_info

\* the dict returned at lines 85-91
off_topic_state ==
    [stage |-> OFF_TOPIC,
     missing_info |-> <<>>,
     has_enough_info |-> FALSE,
     suggested_question |-> <<>>,
     is_product_inquiry |-> FALSE,
     needs_clarification |-> FALSE,
     redirect_needed |-> TRUE]

\* the dict returned at lines 146-155
in_topic_state(stage, missing_info, extracted_info) ==
    [stage |-> stage,
     missing_info |-> missing_info,
     has_enough_info |-> Len(missing_info) = 0,
     suggested_question |->
         IF missing_info # <<>>
         THEN generate_clarifying_question(missing_info, extracted_info)
         ELSE <<>>,
     is_product_inquiry |-> TRUE,
     needs_clarification |-> Len(missing_info) > 0,
     extracted_info |-> extracted_info,
     redirect_needed |-> FALSE]

\* lines 138-155: stage, missing slots and question of the merged slots
analyze_extracted_info(extracted_info, conversation_history) ==
    in_topic_state(determine_stage(extracted_info, conversation_history),
                   identify_missing_info(extracted_info),
                   extracted_info)

\* lines 79-155, all_user_text being the joined user turns
analyze_user_text(current_message, all_user_text, conversation_history) ==
    IF ~is_product_related(current_message, all_user_text) THEN off_topic_state
    ELSE analyze_extracted_info(
             merge_info(extract_conversation_info(current_message),
                        extract_conversation_info(all_user_text)),
             conversation_history)

analyze_conversation_state(current_message, conversation_history) ==
    analyze_user_text(current_message,
                      Join(UserContents(conversation_history) \o <<current_message>>),
                      conversation_history)

-----------------------------------------------------------------------------
(* CustomerIdentifier *)

\* CustomerType, in declaration order (the iteration order of the scores dict)
customer_types == <<"Student", "Engineer", "Gamer", "Business", "Home User", "Other">>

strong_keywords(ct) ==
    CASE ct = "Student" ->
            {"student", "university", "college", "studies", "homework", "assignment",
             "סטודנט", "אוניברסיטה", "לימודים", "שיעורי בית"}
      [] ct = "Engineer" ->
            {"engineer", "developer", "programmer", "architect", "designer",
             "מהנדס", "מפתח", "תכנתן", "אדריכל"}
      [] ct = "Gamer" ->
            {"gaming", "gamer", "games", "fortnite", "valorant", "csgo", "warzone",
             "גיימר", "משחקים", "גיימינג"}
      [] ct = "Business" ->
            {"business", "office", "work", "company", "employee",
             "עסק", "משרד", "עבודה", "חברה"}
      [] ct = "Home User" ->
            {"home", "family", "personal use", "browsing", "netflix",
             "בית", "משפחה", "שימוש אישי"}
      [] OTHER -> {}

medium_keywords(ct) ==
    CASE ct = "Student" ->
            {"school", "class", "lecture", "exam", "notes", "research",
             "בית ספר", "הרצאה", "מבחן"}
      [] ct = "Engineer" ->
            {"coding", "programming", "development", "software", "cad", "autocad",
             "3d modeling", "rendering", "simulation", "compile",
             "תכנות", "פיתוח", "רינדור"}
      [] ct = "Gamer" ->
            {"fps", "streaming", "twitch", "discord", "graphics", "rtx",
             "frame rate", "hz", "rgb"}
      [] ct = "Business" ->
            {"excel", "powerpoint", "word", "email", "meetings", "zoom",
             "אקסל", "וורד", "פגישות"}
      [] ct = "Home User" ->
            {"internet", "youtube", "email", "photos", "videos",
             "אינטרנט", "תמונות", "סרטונים"}
      [] OTHER -> {}

\* CustomerIdentifier._score_customer_types: 3 per strong keyword found, 1 per
\* medium keyword found
score_customer_types(text, ct) ==
    3 * Cardinality({k \in strong_keywords(ct) : HasAny(text, {k})})
    + Cardinality({k \in medium_keywords(ct) : HasAny(text, {k})})

\* the scores dict, by position in customer_types
scores_of(text) ==
    [i \in DOMAIN customer_types |-> score_customer_types(text, customer_types[i])]

\* a choice of the last type, in dict order, of highest score
best_type_last(scores) ==
    CHOOSE k \in DOMAIN scores :
        /\ \A m \in DOMAIN scores : scores[m] <= scores[k]
        /\ \A m \in (k + 1)..Len(scores) : scores[m] < scores[k]

\* max(scores, key=scores.get): the first type, in dict order, of highest score
best_type(scores) ==
    CHOOSE k \in DOMAIN scores :
        /\ \A m \in DOMAIN scores : scores[m] <= scores[k]
        /\ \A m \in 1..(k - 1) : scores[m] < scores[k]

\* CustomerIdentifier.REQUIREMENTS_MAP
REQUIREMENTS_MAP(ct) ==
    CASE ct = "Student" ->
            [cpu_priority |-> "medium", ram_min |-> 8, ram_recommended |-> 16,
             gpu_needed |-> "False", storage_min |-> 256, storage_recommended |-> 512,
             portability |-> "important", budget_sensitive |-> TRUE]
      [] ct = "Engineer" ->
            [cpu_priority |-> "high", ram_min |-> 16, ram_recommended |-> 32,
             gpu_needed |-> "depends", storage_min |-> 512, storage_recommended |-> 1024,
             portability |-> "medium", budget_sensitive |-> FALSE]
      [] ct = "Gamer" ->
            [cpu_priority |-> "high", ram_min |-> 16, ram_recommended |-> 32,
             gpu_needed |-> "True", storage_min |-> 512, storage_recommended |-> 1024,
             portability |-> "low", budget_sensitive |-> FALSE]
      [] ct = "Business" ->
            [cpu_priority |-> "medium", ram_min |-> 8, ram_recommended |-> 16,
             gpu_needed |-> "False", storage_min |-> 256, storage_recommended |-> 512,
             portability |-> "medium", budget_sensitive |-> TRUE]
      [] ct = "Home User" ->
            [cpu_priority |-> "low", ram_min |-> 8, ram_recommended |-> 8,
             gpu_needed |-> "False", storage_min |-> 256, storage_recommended |-> 256,
             portability |-> "medium", budget_sensitive |-> TRUE]
      [] OTHER ->
            [cpu_priority |-> "medium", ram_min |-> 8, ram_recommended |-> 16,
             gpu_needed |-> "False", storage_min |-> 256, storage_recommended |-> 512,
             portability |-> "medium", budget_sensitive |-> TRUE]

\* CustomerIdentifier.identify_from_conversation: the type and its profile
\* (the third component, a question, is only printed by the orchestrator)
identification(best, best_score) ==
    IF best_score < 2
    THEN [customer_type |-> "Other", requirements |-> REQUIREMENTS_MAP("Other")]
    ELSE [customer_type |-> best, requirements |-> REQUIREMENTS_MAP(best)]

identify_from_scores(scores) ==
    identification(customer_types[best_type(scores)], scores[best_type(scores)])

identify_from_conversation(current_message, conversation_history) ==
    identify_from_scores(scores_of(Join(conversation_history \o <<current_message>>)))

-----------------------------------------------------------------------------
(* Product rows.  specs is the JSON column: has_specs is FALSE for NULL or   *)
(* {}, gpu is the words of specs['gpu'].lower().  Prices are distinct, so   *)
(* the price order of a result does not depend on the order of the rows.    *)

Products ==
    {[id |-> 1, brand |-> "Lenovo", product_type |-> "laptop", category |-> "computer",
      price |-> 2500, stock |-> 3, has_specs |-> TRUE, ram_gb |-> 8,
      gpu |-> <<"intel", "uhd">>],
     [id |-> 2, brand |-> "Dell", product_type |-> "laptop", category |-> "computer",
      price |-> 4500, stock |-> 2, has_specs |-> TRUE, ram_gb |-> 16,
      gpu |-> <<"nvidia", "rtx">>],
     [id |-> 3, brand |-> "HP", product_type |-> "desktop", category |-> "computer",
      price |-> 3500, stock |-> 1, has_specs |-> TRUE, ram_gb |-> 16,
      gpu |-> <<"amd", "radeon", "vega">>],
     [id |-> 4, brand |-> "Lenovo", product_type |-> "laptop", category |-> "computer",
      price |-> 2900, stock |-> 0, has_specs |-> TRUE, ram_gb |-> 16,
      gpu |-> <<"nvidia", "rtx">>],
     [id |-> 5, brand |-> "Dell", product_type |-> "accessory", category |-> "mouse",
      price |-> 100, stock |-> 5, has_specs |-> FALSE, ram_gb |-> 0,
      gpu |-> <<>>],
     [id |-> 6, brand |-> "HP", product_type |-> "accessory", category |-> "headset",
      price |-> 60, stock |-> 4, has_specs |-> FALSE, ram_gb |-> 0,
      gpu |-> <<>>]}

\* the product tables a session can run against
Catalogs == {Products, {p \in Products : p.product_type = "accessory"}}

\* Product.is_computer
is_computer(product) == product.product_type \in {"laptop", "desktop"}

\* a Python value that is neither None nor 0
TruthyNum(n) == n # NoneNum /\ n # 0

\* a Python string that is neither None nor ''
TruthyStr(x) == x # NoneStr /\ x # ""

\* results.sort(key=lambda p: p.price)
RECURSIVE SortByPrice(_)
CheapestFirst(rows, first) == <<first>> \o SortByPrice(rows \ {first})

SortByPrice(rows) ==
    IF rows = {} THEN <<>>
    ELSE CheapestFirst(rows, CHOOSE p \in rows :
                                 \A q \in rows :
                                     \/ p.price < q.price
                                     \/ p.price = q.price /\ p.id <= q.id)

\* a product query that does not look at the stock
filter_products_any_stock(rows, product_type, category, brand, max_price, min_stock) ==
    SortByPrice({p \in rows :
        /\ TruthyStr(product_type) => p.product_type = product_type
        /\ TruthyStr(category) => p.category = category
        /\ TruthyStr(brand) => p.brand = brand
        /\ TruthyNum(max_price) => p.price <= max_price})

\* ProductRepository.filter_products, with the arguments its callers pass
\* (min_price, min_ram and min_storage keep their default None)
filter_products(rows, product_type, category, brand, max_price, min_stock) ==
    SortByPrice({p \in rows :
        /\ TruthyStr(product_type) => p.product_type = product_type
        /\ TruthyStr(category) => p.category = category
        /\ TruthyStr(brand) => p.brand = brand
        /\ TruthyNum(max_price) => p.price <= max_price
        /\ p.stock >= min_stock})

-----------------------------------------------------------------------------
(* ProductMatcher *)

\* the first number word among the positions after
FirstNumber(message, after) ==
    IF after = {} THEN NoneNum ELSE NumValue(message[MinOf(after)])

NumbersAfter(message, anchors) ==
    IF anchors = <<>> THEN {}
    ELSE {j \in DOMAIN message : j > anchors[1] /\ IsNumber(message[j])}

\* ProductMatcher._extract_budget: of its templates only r'תקציב.*?(\d+)' has
\* an anchor that is a modelled word
extract_budget(message) ==
    FirstNumber(message, NumbersAfter(message, SelectIdx(message, {"תקציב"}, 1)))

\* ProductMatcher._extract_product_type
extract_product_type(message) ==
    IF HasAny(message, {"laptop", "notebook", "portable",
                        "נייד", "לפטופ", "מחשב נייד", "מחברת", "ניידת"})
    THEN "laptop"
    ELSE IF HasAny(message, {"desktop", "tower", "pc",
                             "שולחני", "מחשב שולחני", "נייח", "מגדל", "דסקטופ"})
    THEN "desktop"
    ELSE NoneStr

\* ProductMatcher._get_customer_filters
get_customer_filters(customer_type_, message) ==
    [min_stock |-> 1,
     brand |-> IF HasAny(message, {"lenovo"}) THEN "Lenovo"
               ELSE IF HasAny(message, {"dell"}) THEN "Dell"
               ELSE NoneStr,
     category |-> IF HasAny(message, computer_keywords) THEN "computer" ELSE NoneStr]

gaming_keywords ==
    {"gaming", "gamer", "game", "games", "גיימינג", "גיימר", "משחקים", "משחק"}

\* a GPU test that accepts any discrete term, integrated markers or not
has_dedicated_gpu_any_discrete_term(product) ==
    HasAny(product.gpu, {"rtx", "radeon", "nvidia", "geforce"})

\* the Gamer branch of _filter_by_specs, lines 282-292
has_dedicated_gpu(product) ==
    IF HasAny(product.gpu, {"vega", "uhd", "iris"}) THEN FALSE
    ELSE HasAny(product.gpu, {"rtx", "radeon", "nvidia", "geforce"})

\* a spec gate that lets every computer with specs pass for an Engineer
filter_by_specs_any_ram(products, customer_type_, message) ==
    LET is_gaming_mentioned == HasAny(message, gaming_keywords)
        Passes(product) ==
            IF ~product.has_specs \/ ~is_computer(product) THEN FALSE
            ELSE IF customer_type_ = "Engineer" THEN TRUE
            ELSE IF customer_type_ = "Gamer" \/ is_gaming_mentioned
            THEN has_dedicated_gpu(product)
            ELSE TRUE IN
    SelectSeq(products, Passes)

\* ProductMatcher._filter_by_specs
filter_by_specs(products, customer_type_, message) ==
    LET is_gaming_mentioned == HasAny(message, gaming_keywords)
        Passes(product) ==
            IF ~product.has_specs \/ ~is_computer(product) THEN FALSE
            ELSE IF customer_type_ = "Engineer" THEN product.ram_gb >= 16
            ELSE IF customer_type_ = "Gamer" \/ is_gaming_mentioned
            THEN has_dedicated_gpu(product)
            ELSE TRUE IN
    SelectSeq(products, Passes)

\* lines 77-91: the filters dict handed to the repository
build_filters(filters, budget, ptype, category) ==
    [min_stock |-> filters.min_stock,
     brand |-> filters.brand,
     category |-> IF TruthyStr(category) THEN category ELSE filters.category,
     max_price |-> IF TruthyNum(budget) THEN budget ELSE NoneNum,
     product_type |-> IF TruthyStr(ptype) THEN ptype ELSE NoneStr]

\* lines 66-91: the arguments of the repository query
matcher_filters(customer_type_, message, max_budget, product_type, category) ==
    build_filters(get_customer_filters(customer_type_, message),
                  IF max_budget = NoneNum THEN extract_budget(message) ELSE max_budget,
                  IF product_type = NoneStr THEN extract_product_type(message)
                  ELSE product_type,
                  category)

\* line 96: self.repo.filter_products(**filters)
query_products(rows, filters) ==
    filter_products(rows, filters.product_type, filters.category, filters.brand,
                    filters.max_price, filters.min_stock)

\* lines 99-104: the spec gate of Engineer and Gamer, then the limit
gate_and_limit(found, gated, customer_type_, limit) ==
    IF customer_type_ \in {"Engineer", "Gamer"}
    THEN SubSeq(gated, 1, Min(limit, Len(gated)))
    ELSE SubSeq(found, 1, Min(limit, Len(found)))

matching_products(found, customer_type_, message, limit) ==
    gate_and_limit(found, filter_by_specs(found, customer_type_, message),
                   customer_type_, limit)

\* ProductMatcher.find_matching_products
find_matching_products(rows, customer_type_, message, max_budget, product_type, category, limit) ==
    matching_products(
        query_products(rows, matcher_filters(customer_type_, message, max_budget,
                                             product_type, category)),
        customer_type_, message, limit)

\* the parameters of find_matching_products (product_matcher.py lines 31-39)
find_matching_products_params ==
    {"customer_type", "message", "max_budget", "product_type", "category", "limit"}

-----------------------------------------------------------------------------
(* UpsellSelector *)

accessory_order == <<"headset", "mouse", "keyboard", "monitor", "bag">>

accessory_keywords(category) ==
    CASE category = "headset" -> {"headset", "headphones", "earphones", "אוזניות", "אזניות"}
      [] category = "mouse" -> {"mouse", "עכבר", "עכברים"}
      [] category = "keyboard" -> {"keyboard", "מקלדת"}
      [] category = "monitor" -> {"monitor", "screen", "display", "מסך", "צג"}
      [] OTHER -> {"bag", "backpack", "תיק", "תרמיל"}

\* message i of the history is a user message with a keyword of category c
AccessoryHit(conversation_history, i, c) ==
    /\ conversation_history[i].role = "user"
    /\ HasAny(conversation_history[i].content, accessory_keywords(accessory_order[c]))

FirstCategory(conversation_history, i) ==
    accessory_order[MinOf({c \in DOMAIN accessory_order :
                              AccessoryHit(conversation_history, i, c)})]

FirstRequest(conversation_history, hits) ==
    IF hits = {} THEN NoneStr ELSE FirstCategory(conversation_history, MinOf(hits))

\* UpsellSelector._detect_explicit_accessory_request: the first user message
\* with an accessory keyword decides, by the first category that hits
detect_explicit_accessory_request(conversation_history) ==
    FirstRequest(conversation_history,
                 {i \in DOMAIN conversation_history :
                     \E c \in DOMAIN accessory_order :
                         AccessoryHit(conversation_history, i, c)})

\* UpsellSelector._get_preferred_categories
get_preferred_categories(main_product, customer_type_) ==
    LET base == IF main_product.product_type = "laptop"
                THEN <<"mouse", "bag", "headset">>
                ELSE IF main_product.product_type = "desktop"
                THEN <<"keyboard", "mouse", "headset">>
                ELSE <<>> IN
    IF customer_type_ = "Gamer" THEN <<"mouse", "headset">> \o base
    ELSE IF customer_type_ = "Student" THEN <<"mouse", "bag">> \o base
    ELSE base

NoProduct == [id |-> 0]

FirstOr(products, other) == IF products # <<>> THEN products[1] ELSE other

\* lines 93-113: the first preferred category that has an accessory, else
\* the cheapest accessory of any category, else None
RECURSIVE upsell_by_preference(_, _, _)
PreferredOrNext(rows, categories, max_upsell_price, accessories) ==
    IF accessories # <<>> THEN accessories[1]
    ELSE upsell_by_preference(rows, Tail(categories), max_upsell_price)

upsell_by_preference(rows, categories, max_upsell_price) ==
    IF categories = <<>>
    THEN FirstOr(filter_products(rows, "accessory", NoneStr, NoneStr,
                                 max_upsell_price, 1), NoProduct)
    ELSE PreferredOrNext(rows, categories, max_upsell_price,
                         filter_products(rows, "accessory", Head(categories),
                                         NoneStr, max_upsell_price, 1))

\* a selection of accessories that does not look at the price ceiling
accessories_of_any_price(rows, category, max_upsell_price) ==
    IF TruthyStr(category)
    THEN filter_products(rows, "accessory", category, NoneStr, NoneNum, 1)
    ELSE <<>>

\* the accessories of one category, none for no category
accessories_of(rows, category, max_upsell_price) ==
    IF TruthyStr(category)
    THEN filter_products(rows, "accessory", category, NoneStr, max_upsell_price, 1)
    ELSE <<>>

\* a selection that looks at the history before the requested accessory
first_upsell_history_first(requested, explicit, preferred) ==
    IF explicit # <<>> THEN explicit[1]
    ELSE IF requested # <<>> THEN requested[1]
    ELSE preferred

\* lines 59-113: the three priorities in turn
first_upsell(requested, explicit, preferred) ==
    IF requested # <<>> THEN requested[1]
    ELSE IF explicit # <<>> THEN explicit[1]
    ELSE preferred

\* UpsellSelector.select_upsell
select_upsell(rows, main_product, customer_type_, conversation_history, max_upsell_price, requested_accessory) ==
    first_upsell(
        accessories_of(rows, requested_accessory, max_upsell_price),
        accessories_of(rows,
                       IF conversation_history # <<>>
                       THEN detect_explicit_accessory_request(conversation_history)
                       ELSE NoneStr,
                       max_upsell_price),
        upsell_by_preference(rows,
                             get_preferred_categories(main_product, customer_type_),
                             max_upsell_price))

-----------------------------------------------------------------------------
(* The customer messages and the assistant texts of the model *)

\* the current messages and the user turns handed to the flow manager
UserMessages ==
    {<<"hello">>,
     <<"student">>,
     <<"3000">>,
     <<"5000">>,
     <<"student", "laptop", "תקציב", "3000">>,
     <<"computer">>,
     <<"headset">>,
     <<"gaming", "desktop">>,
     <<"computer", "mouse", "gaming", "laptop", "5000">>,
     <<"16", "gb", "ram">>,
     <<"gaming", "headset", "80">>,
     <<"lenovo", "laptop">>,
     <<"mouse", "200", "ומעלה">>}

\* the messages a customer sends in a session of the service
SessionMessages ==
    {<<"hello">>,
     <<"student">>,
     <<"3000">>,
     <<"student", "laptop", "תקציב", "3000">>,
     <<"computer">>,
     <<"gaming", "desktop">>,
     <<"computer", "mouse", "gaming", "laptop", "5000">>,
     <<"gaming", "headset", "80">>,
     <<"lenovo", "laptop">>,
     <<"16", "gb", "ram">>}

\* RecommendationService._handle_off_topic
handle_off_topic == <<"redirect">>

\* RecommendationService._handle_no_products_found
handle_no_products_found(extracted_info) == <<"no_match">>

\* str(product.price) of the Float column
PriceStr(price) == ToString(price) \o ".0"

\* What the text generator does with a request: it fails with
\* LLMProviderError, or answers some text, which may or may not hold a
\* recommendation marker and may state the main product's price tagged ILS,
\* another price tagged ILS, or none.
LLMOutcomes ==
    {[ok |-> FALSE, marker |-> FALSE, price |-> "none"],
     [ok |-> TRUE, marker |-> FALSE, price |-> "none"],
     [ok |-> TRUE, marker |-> TRUE, price |-> "real"],
     [ok |-> TRUE, marker |-> TRUE, price |-> "wrong"]}

WrongPrice == "9999"

\* the text answered to the clarification prompt
GeneratedQuestion(llm) ==
    <<"generated">> \o (IF llm.marker THEN <<"recommend">> ELSE <<>>)

\* the text answered to the recommendation prompt
GeneratedRecommendation(llm, main_product) ==
    <<"generated">> \o (IF llm.marker THEN <<"recommend">> ELSE <<>>)
    \o (CASE llm.price = "real" -> <<PriceStr(main_product.price), "ILS">>
          [] llm.price = "wrong" -> <<WrongPrice, "ILS">>
          [] llm.price = "real_shekel" -> <<PriceStr(main_product.price), "₪">>
          [] llm.price = "wrong_shekel" -> <<WrongPrice, "₪">>
          [] llm.price = "wrong_then_real" ->
                 <<WrongPrice, "ILS", "instead", PriceStr(main_product.price), "₪">>
          [] OTHER -> <<>>)

GeneratedTexts == {GeneratedQuestion(llm) : llm \in {o \in LLMOutcomes : o.ok}}

-----------------------------------------------------------------------------
(* RecommendationService: the text of a reply *)

\* RecommendationService._generate_clarifying_response
generate_clarifying_response(conversation_state, llm) ==
    IF llm.ok THEN GeneratedQuestion(llm)
    ELSE conversation_state.suggested_question

\* re.search(r'\d+(?:,\d{3})*(?:\.\d+)?\s*ILS', response): the first number
\* tagged ILS
IsPriceWord(w) == w = WrongPrice \/ \E p \in Products : w = PriceStr(p.price)

TaggedPrices(response) ==
    {i \in DOMAIN response :
        IsPriceWord(response[i]) /\ i + 1 <= Len(response) /\ response[i + 1] = "ILS"}

\* RecommendationService._validate_response: str.replace rewrites every
\* occurrence of the token that the search found first
validate_response(response, main_product) ==
    IF HasAny(response, {PriceStr(main_product.price)}) \/ TaggedPrices(response) = {}
    THEN response
    ELSE LET first == CHOOSE i \in TaggedPrices(response) :
                          \A j \in TaggedPrices(response) : i <= j
             found == response[first] IN
         [i \in DOMAIN response |->
             IF i \in TaggedPrices(response) /\ response[i] = found
             THEN PriceStr(main_product.price)
             ELSE response[i]]

\* RecommendationService._generate_template_recommendation
generate_template_recommendation(main_product, upsell_product) ==
    <<"template", "ממליץ", PriceStr(main_product.price), "₪">>
    \o (IF upsell_product # NoProduct
        THEN <<"upsell", PriceStr(upsell_product.price), "₪">> ELSE <<>>)

\* RecommendationService._generate_recommendation_with_guardrails
generate_recommendation_with_guardrails(main_product, upsell_product, llm) ==
    IF llm.ok
    THEN validate_response(GeneratedRecommendation(llm, main_product), main_product)
    ELSE generate_template_recommendation(main_product, upsell_product)

-----------------------------------------------------------------------------
(* RecommendationService.process_message *)

NoResult ==
    [assistant_message |-> <<>>, customer_type |-> NoneStr,
     recommended_items |-> <<>>, upsell_item |-> NoProduct]

NoCall == [called |-> FALSE]

\* a call that has not returned
NotReturned == [returned |-> FALSE]

\* the row of a user turn and of an assistant turn
UserRow(content) == [role |-> "user", content |-> content]

AssistantRow(content) == [role |-> "assistant", content |-> content]

\* what a call leaves behind and what it did
turn_trace(outcome, user_message, conversation_state, classified, matcher_call, catalog_queried, llm_called, raised, result) ==
    [outcome |-> outcome, user_message |-> user_message,
     analysis |-> conversation_state, classified |-> classified,
     matcher_call |-> matcher_call, catalog_queried |-> catalog_queried,
     llm_called |-> llm_called, raised |-> raised, result |-> result]

turn_effect(rows_after, type_after, recs_after, trace) ==
    [messages |-> rows_after, customer_type |-> type_after,
     recommendations |-> recs_after, trace |-> trace]

\* RecommendationService._save_and_return_response: the returned dict (the
\* assistant row is appended by the caller of this operator)
save_and_return_response(response, customer_type_, products, upsell) ==
    [assistant_message |-> response,
     customer_type |-> customer_type_,
     recommended_items |-> products,
     upsell_item |-> upsell]

\* an off-topic turn that classifies the customer and stores the type
off_topic_turn_classifying(saved, stored_type, recs, user_message, conversation_state) ==
    turn_effect(
        Append(saved, AssistantRow(handle_off_topic)),
        identify_from_conversation(user_message, UserContents(saved)).customer_type,
        recs,
        turn_trace("off_topic", user_message, conversation_state, FALSE, NoCall,
                   FALSE, FALSE, NoneStr,
                   save_and_return_response(
                       handle_off_topic,
                       IF TruthyStr(stored_type) THEN stored_type ELSE "Other",
                       <<>>, NoProduct)))

\* Step 5 (lines 118-128): the off-topic turn.  saved is the session's rows
\* after the user row was written.
off_topic_turn(saved, stored_type, recs, user_message, conversation_state) ==
    turn_effect(
        Append(saved, AssistantRow(handle_off_topic)),
        stored_type,
        recs,
        turn_trace("off_topic", user_message, conversation_state, FALSE, NoCall,
                   FALSE, FALSE, NoneStr,
                   save_and_return_response(
                       handle_off_topic,
                       IF TruthyStr(stored_type) THEN stored_type ELSE "Other",
                       <<>>, NoProduct)))

\* a turn that leaves the stored type as it was
identify_step_skipped(stored_type, user_message, history) == stored_type

\* lines 142-143: update_customer_type only when the type differs
updated_type(stored_type, identified_type) ==
    IF stored_type # identified_type THEN identified_type ELSE stored_type

\* Step 6 (lines 130-143): the type the session row holds after the
\* classifier ran
identify_step(stored_type, user_message, history) ==
    updated_type(stored_type,
                 identify_from_conversation(user_message,
                                            UserContents(history)).customer_type)

\* a clarification reply that is returned without being persisted
clarification_reply_unsaved(saved, new_type, recs, user_message, conversation_state, response) ==
    turn_effect(
        saved,
        new_type,
        recs,
        turn_trace("clarification", user_message, conversation_state, TRUE, NoCall,
                   FALSE, TRUE, NoneStr,
                   save_and_return_response(response, new_type, <<>>, NoProduct)))

\* lines 159-165: the question is persisted and returned
clarification_reply(saved, new_type, recs, user_message, conversation_state, response) ==
    turn_effect(
        Append(saved, AssistantRow(response)),
        new_type,
        recs,
        turn_trace("clarification", user_message, conversation_state, TRUE, NoCall,
                   FALSE, TRUE, NoneStr,
                   save_and_return_response(response, new_type, <<>>, NoProduct)))

\* Step 7 (lines 145-166): the turn that asks a clarifying question
clarification_turn(saved, new_type, recs, user_message, conversation_state, llm) ==
    clarification_reply(saved, new_type, recs, user_message, conversation_state,
                        generate_clarifying_response(conversation_state, llm))

\* the keyword arguments of the call at lines 189-197
matcher_call_keywords ==
    {"customer_type", "message", "max_budget", "product_type", "category",
     "brand", "limit"}

\* Python binds a call only if every keyword is a parameter of the callee;
\* otherwise the call raises TypeError before the callee's body runs
call_binds(keywords, params) == keywords \subseteq params

\* ceilings that never split the budget
budget_split_never(extracted_info) ==
    [computer_budget |-> extracted_info.budget_amount, accessory_budget |-> 1000]

\* lines 174-186: the budget of the computer search and of the upsell search
budget_split(extracted_info) ==
    IF TruthyStr(extracted_info.requested_accessory)
       /\ TruthyNum(extracted_info.budget_amount)
    THEN [computer_budget |-> (extracted_info.budget_amount * 3) \div 4,
          accessory_budget |-> extracted_info.budget_amount \div 4]
    ELSE [computer_budget |-> extracted_info.budget_amount,
          accessory_budget |-> 1000]

\* the arguments of the call at lines 189-197
matcher_call(new_type, user_message, extracted_info, computer_budget) ==
    [called |-> TRUE,
     customer_type |-> new_type,
     message |-> user_message,
     max_budget |-> computer_budget,
     product_type |-> extracted_info.product_type,
     category |-> extracted_info.category,
     brand |-> extracted_info.brand,
     limit |-> 5]

\* lines 253-256: an exception of the turn becomes RecommendationError; the
\* user row and the customer type are already committed
raise_recommendation_error(saved, new_type, recs, user_message, conversation_state, call) ==
    turn_effect(saved, new_type, recs,
                turn_trace("error", user_message, conversation_state, TRUE, call,
                           FALSE, FALSE, "RecommendationError", NoResult))

\* lines 199-211: no product matches
no_products_turn(saved, new_type, recs, user_message, conversation_state, call) ==
    turn_effect(
        Append(saved, AssistantRow(
                          handle_no_products_found(conversation_state.extracted_info))),
        new_type,
        recs,
        turn_trace("no_match", user_message, conversation_state, TRUE, call,
                   TRUE, FALSE, NoneStr,
                   save_and_return_response(
                       handle_no_products_found(conversation_state.extracted_info),
                       new_type, <<>>, NoProduct)))

\* lines 236-251: the Recommendation row, the assistant row, the result
recommendation_reply(saved, new_type, recs, user_message, conversation_state, call, main_product, upsell_product, recommendation_text) ==
    turn_effect(
        Append(saved, AssistantRow(recommendation_text)),
        new_type,
        Append(recs, [product_id |-> main_product.id,
                      recommendation_text |-> recommendation_text,
                      upsell_product_id |-> upsell_product.id]),
        turn_trace("recommendation", user_message, conversation_state, TRUE, call,
                   TRUE, TRUE, NoneStr,
                   save_and_return_response(recommendation_text, new_type,
                                            <<main_product>>, upsell_product)))

\* lines 225-234: the text of the recommendation
recommend_with_upsell(saved, new_type, recs, user_message, conversation_state, call, llm, main_product, upsell_product) ==
    recommendation_reply(saved, new_type, recs, user_message, conversation_state,
                         call, main_product, upsell_product,
                         generate_recommendation_with_guardrails(
                             main_product, upsell_product, llm))

\* lines 199-223: no product, else the cheapest match and its upsell
after_matching(saved, new_type, recs, rows, user_message, conversation_state, call, llm, accessory_budget, products) ==
    IF products = <<>>
    THEN no_products_turn(saved, new_type, recs, user_message, conversation_state,
                          call)
    ELSE recommend_with_upsell(
             saved, new_type, recs, user_message, conversation_state, call, llm,
             products[1],
             select_upsell(rows, products[1], new_type, saved, accessory_budget,
                           conversation_state.extracted_info.requested_accessory))

\* lines 189-197: the call of the product matcher
matching_turn(saved, new_type, recs, rows, user_message, conversation_state, llm, accessory_budget, call) ==
    IF ~call_binds(matcher_call_keywords, find_matching_products_params)
    THEN raise_recommendation_error(saved, new_type, recs, user_message,
                                    conversation_state, call)
    ELSE after_matching(
             saved, new_type, recs, rows, user_message, conversation_state, call,
             llm, accessory_budget,
             find_matching_products(rows, call.customer_type, call.message,
                                    call.max_budget, call.product_type,
                                    call.category, call.limit))

split_turn(saved, new_type, recs, rows, user_message, conversation_state, llm, split) ==
    matching_turn(saved, new_type, recs, rows, user_message, conversation_state,
                  llm, split.accessory_budget,
                  matcher_call(new_type, user_message,
                               conversation_state.extracted_info,
                               split.computer_budget))

\* Steps 8-12 (lines 168-251) and the handler at lines 253-256
recommendation_turn(saved, new_type, recs, rows, user_message, conversation_state, llm) ==
    split_turn(saved, new_type, recs, rows, user_message, conversation_state, llm,
               budget_split(conversation_state.extracted_info))

\* Steps 6-12: the turn of a message that passed the topic gate
in_topic_turn(saved, new_type, recs, rows, user_message, conversation_state, llm) ==
    IF conversation_state.needs_clarification
    THEN clarification_turn(saved, new_type, recs, user_message,
                            conversation_state, llm)
    ELSE recommendation_turn(saved, new_type, recs, rows, user_message,
                             conversation_state, llm)

\* Steps 5-12, on the analysis of Step 4
analysed_turn(saved, stored_type, recs, rows, user_message, conversation_state, llm) ==
    IF conversation_state.redirect_needed
    THEN off_topic_turn(saved, stored_type, recs, user_message, conversation_state)
    ELSE in_topic_turn(saved, identify_step(stored_type, user_message, saved),
                       recs, rows, user_message, conversation_state, llm)

\* Steps 3-12: saved is the history read back after the user row was written
saved_turn(saved, stored_type, recs, rows, user_message, llm) ==
    analysed_turn(saved, stored_type, recs, rows, user_message,
                  analyze_conversation_state(user_message, saved), llm)

\* the whole of process_message: the persisted rows, the stored customer
\* type and the recommendation rows after the call, and what the call did
process_message(rows_of_session, stored_type, recs, rows, user_message, llm) ==
    saved_turn(Append(rows_of_session, UserRow(user_message)), stored_type, recs,
               rows, user_message, llm)

-----------------------------------------------------------------------------
(* One session of the service *)

Init ==
    /\ session_exists = FALSE
    /\ customer_type = NoneStr
    /\ messages = <<>>
    /\ recommendations = <<>>
    /\ catalog \in Catalogs
    /\ last = [outcome |-> NoneStr]
    /\ turns = 0
    /\ fm_msg = <<>>
    /\ fm_history = <<>>
    /\ fm_out = [stage |-> NoneStr]
    /\ call_args = NoCall
    /\ call_result = NotReturned
    /\ requests = <<>>
    /\ pc = <<>>
    /\ running = 0

\* one call of process_message for the session, run to its end
ProcessMessage(user_message, llm) ==
    /\ turns < MaxTurns
    /\ \E r \in {process_message(messages, customer_type, recommendations,
                                  catalog, user_message, llm)} :
           /\ session_exists' = TRUE
           /\ messages' = r.messages
           /\ customer_type' = r.customer_type
           /\ recommendations' = r.recommendations
           /\ last' = r.trace
    /\ turns' = turns + 1
    /\ UNCHANGED catalog
    /\ UNCHANGED fm_vars
    /\ UNCHANGED fn_vars
    /\ UNCHANGED srv_vars

Next == \E user_message \in SessionMessages, llm \in LLMOutcomes :
            ProcessMessage(user_message, llm)

Spec == Init /\ [][Next]_vars

-----------------------------------------------------------------------------
(* Calls of analyze_conversation_state on arbitrary arguments *)

NotCalled == [stage |-> NoneStr]

HistoryEntries ==
    [role : {"user"}, content : UserMessages]
    \cup [role : {"assistant"},
          content : GeneratedTexts
                    \cup {handle_off_topic, <<"ask_use_case_computer", "המלצה">>,
                          <<"ask_budget">>}]

Histories == UNION {[1..n -> HistoryEntries] : n \in 0..MaxHistory}

InitFlow ==
    /\ session_exists = FALSE
    /\ customer_type = NoneStr
    /\ messages = <<>>
    /\ recommendations = <<>>
    /\ catalog = {}
    /\ last = [outcome |-> NoneStr]
    /\ turns = 0
    /\ fm_msg \in UserMessages
    /\ fm_history \in Histories
    /\ fm_out = NotCalled
    /\ call_args = NoCall
    /\ call_result = NotReturned
    /\ requests = <<>>
    /\ pc = <<>>
    /\ running = 0

Analyze ==
    /\ fm_out = NotCalled
    /\ fm_out' = analyze_conversation_state(fm_msg, fm_history)
    /\ UNCHANGED <<fm_msg, fm_history>>
    /\ UNCHANGED svc_vars
    /\ UNCHANGED fn_vars
    /\ UNCHANGED srv_vars

NextFlow == Analyze

SpecFlow == InitFlow /\ [][NextFlow]_vars


-----------------------------------------------------------------------------
(* Properties of analyze_conversation_state, checked under SpecFlow *)

Analyzed == fm_out # NotCalled

InTopic == Analyzed /\ fm_out.stage # OFF_TOPIC

\* what the current message alone resolves
CurrentInfo == extract_conversation_info(fm_msg)

\* what the history alone resolves, the current message left out
HistoryOnlyInfo == extract_conversation_info(Join(UserContents(fm_history)))

\* what the accumulated user text resolves
AccumulatedInfo ==
    extract_conversation_info(Join(UserContents(fm_history) \o <<fm_msg>>))

\* C1: for each of budget, use_case, product_type, category and brand, a
\* field that the current message resolves keeps the current message's
\* value in the merged slot state whatever the history holds, and a value
\* of the history is copied only into a field the current message left
\* unset.
C1_CurrentOverridesHistory ==
    InTopic =>
        LET cur == CurrentInfo
            hist == AccumulatedInfo
            out == fm_out.extracted_info IN
        /\ cur.has_budget =>
               out.has_budget /\ out.budget_amount = cur.budget_amount
        /\ cur.has_use_case =>
               out.has_use_case /\ out.use_case_keywords = cur.use_case_keywords
        /\ cur.has_product_type =>
               out.has_product_type /\ out.product_type = cur.product_type
        /\ cur.has_category =>
               out.has_category /\ out.category = cur.category
        /\ cur.has_brand_preference =>
               out.has_brand_preference /\ out.brand = cur.brand
        /\ out.budget_amount \in {cur.budget_amount, hist.budget_amount}
        /\ out.use_case_keywords \in {cur.use_case_keywords, hist.use_case_keywords}
        /\ out.product_type \in {cur.product_type, hist.product_type}
        /\ out.category \in {cur.category, hist.category}
        /\ out.brand \in {cur.brand, hist.brand}

\* the history states one budget, the current message another, and the
\* use case comes from the history
C1_Witness ==
    /\ InTopic
    /\ CurrentInfo.has_budget /\ HistoryOnlyInfo.has_budget
    /\ HistoryOnlyInfo.budget_amount = 3000
    /\ CurrentInfo.budget_amount = 5000
    /\ fm_out.extracted_info.budget_amount = 5000
    /\ ~CurrentInfo.has_use_case
    /\ fm_out.extracted_info.has_use_case

\* the words of the gate, read from the current message
PassesGate(message) ==
    HasAny(message, product_keywords)
    \/ \E i \in DOMAIN message : IsNumber(message[i]) /\ NumDigits(message[i]) \in 3..6

C3_MissingInfo ==
    InTopic =>
        LET e == fm_out.extracted_info
            pure_accessory ==
                e.category \in {"mouse", "keyboard", "headset", "bag", "monitor"}
            required == IF pure_accessory THEN <<"use_case", "budget">>
                        ELSE <<"use_case", "budget", "product_type">>
            Unresolved(slot) ==
                CASE slot = "use_case" -> ~e.has_use_case
                  [] slot = "budget" -> ~e.has_budget
                  [] OTHER -> ~e.has_product_type IN
        /\ fm_out.missing_info = SelectSeq(required, Unresolved)
        /\ pure_accessory => ~InSeq("product_type", fm_out.missing_info)

\* a headset request with no use case and no product type
C3_Witness ==
    /\ InTopic
    /\ fm_out.extracted_info.category = "headset"
    /\ ~fm_out.extracted_info.has_use_case
    /\ ~fm_out.extracted_info.has_product_type
    /\ fm_out.missing_info = <<"use_case", "budget">>

MarkerInHistory ==
    \E i \in DOMAIN fm_history :
        /\ fm_history[i].role = "assistant"
        /\ \E j \in DOMAIN fm_history[i].content :
               fm_history[i].content[j] \in {"recommend", "ממליץ", "המלצה"}

\* C4: the stage of an in-topic turn is given by the first rule that
\* applies: empty history, GREETING; an earlier assistant turn with a
\* recommendation marker, RECOMMENDATION_GIVEN; no missing slot,
\* READY_TO_RECOMMEND; use_case missing, UNDERSTANDING_NEEDS; budget
\* missing, CLARIFYING_BUDGET; product_type missing, CLARIFYING_PREFERENCES.
C4_StageDerivation ==
    InTopic =>
        fm_out.stage =
            IF fm_history = <<>> THEN GREETING
            ELSE IF MarkerInHistory THEN RECOMMENDATION_GIVEN
            ELSE IF fm_out.missing_info = <<>> THEN READY_TO_RECOMMEND
            ELSE IF InSeq("use_case", fm_out.missing_info) THEN UNDERSTANDING_NEEDS
            ELSE IF InSeq("budget", fm_out.missing_info) THEN CLARIFYING_BUDGET
            ELSE CLARIFYING_PREFERENCES

\* every slot is resolved and an earlier assistant turn carries a marker
C4_Witness ==
    /\ InTopic
    /\ fm_history # <<>>
    /\ MarkerInHistory
    /\ fm_out.missing_info = <<>>
    /\ fm_out.stage = RECOMMENDATION_GIVEN

\* C5, as the specification states it: with an empty history the stage is
\* GREETING whatever the current message contains.
C5_EmptyHistoryAlwaysGreeting ==
    (Analyzed /\ fm_history = <<>>) => fm_out.stage = GREETING

\* C5, amended: with an empty history a message that passes the topic gate
\* yields GREETING whatever slots it resolves, and a message that does not
\* pass the gate yields OFF_TOPIC.
C5_EmptyHistoryGreetingAfterGate ==
    (Analyzed /\ fm_history = <<>>) =>
        fm_out.stage = IF PassesGate(fm_msg) THEN GREETING ELSE OFF_TOPIC

\* a first message that resolves every slot is still a greeting
C5_Witness ==
    /\ Analyzed
    /\ fm_history = <<>>
    /\ fm_out.stage = GREETING
    /\ fm_out.missing_info = <<>>
    /\ fm_out.has_enough_info

-----------------------------------------------------------------------------
(* Properties of process_message, checked under Spec *)

TurnDone == turns > 0

\* the turn passed the topic gate and its merged slot state misses nothing
EnoughInfoTurn ==
    TurnDone /\ ~last.analysis.redirect_needed /\ last.analysis.has_enough_info

\* C6: the first message of a session that resolves use_case, budget and
\* product_type at once (and bundles no accessory) is analysed as
\* READY_TO_RECOMMEND with no missing slot, and the catalog filter is
\* invoked with the stated budget as price ceiling and the stated product
\* type.
C6_FirstMessageReachesFilter ==
    LET cur == extract_conversation_info(last.user_message) IN
    (turns = 1 /\ cur.has_use_case /\ cur.has_budget /\ cur.has_product_type
               /\ ~TruthyStr(cur.requested_accessory)) =>
        /\ last.analysis.stage = READY_TO_RECOMMEND
        /\ last.analysis.missing_info = <<>>
        /\ last.matcher_call.called
        /\ last.matcher_call.max_budget = cur.budget_amount
        /\ last.matcher_call.product_type = cur.product_type
        /\ last.catalog_queried

\* C7: an in-topic turn with no missing slot runs the classification and
\* then the catalog filter and returns a recommendation or the no-match
\* reply; no RecommendationError comes from the orchestrator's own call
\* into the catalog filter.
C7_RecommendationOrNoMatch ==
    EnoughInfoTurn =>
        /\ last.classified
        /\ last.catalog_queried
        /\ last.outcome \in {"recommendation", "no_match"}
        /\ last.raised = NoneStr

\* what the catalog filter returns for the arguments of the turn's call
FilterResult ==
    find_matching_products(catalog, last.matcher_call.customer_type,
                           last.matcher_call.message, last.matcher_call.max_budget,
                           last.matcher_call.product_type, last.matcher_call.category,
                           last.matcher_call.limit)

\* C10: when the catalog filter has no item for the turn, the turn ends
\* normally: the templated no-match reply is the persisted assistant turn,
\* recommended_items is empty, there is no upsell, no Recommendation row
\* and no call of the text generator, and nothing is raised.
C10_NoMatchIsNormalOutcome ==
    (EnoughInfoTurn /\ FilterResult = <<>>) =>
        /\ last.outcome = "no_match"
        /\ last.raised = NoneStr
        /\ messages[Len(messages)] =
               [role |-> "assistant",
                content |-> handle_no_products_found(last.analysis.extracted_info)]
        /\ last.result.recommended_items = <<>>
        /\ last.result.upsell_item = NoProduct
        /\ ~last.llm_called

\* C8: an off-topic turn persists the user turn and the fixed redirect
\* reply and nothing else: the classifier does not run, the stored customer
\* type is unchanged, the catalog is not queried, the text generator is not
\* called, no recommendation is persisted, and the result carries no
\* recommended item and no upsell.
C8_OffTopicFrame ==
    [][~PassesGate(last'.user_message) =>
          /\ last'.outcome = "off_topic"
          /\ messages' = messages \o <<UserRow(last'.user_message),
                                       AssistantRow(handle_off_topic)>>
          /\ customer_type' = customer_type
          /\ recommendations' = recommendations
          /\ ~last'.classified
          /\ ~last'.catalog_queried
          /\ ~last'.matcher_call.called
          /\ ~last'.llm_called
          /\ last'.raised = NoneStr
          /\ last'.result.assistant_message = handle_off_topic
          /\ last'.result.recommended_items = <<>>
          /\ last'.result.upsell_item = NoProduct]_vars

\* an off-topic first turn: the classifier would have stored Other
C8_Witness ==
    /\ turns = 1
    /\ last.outcome = "off_topic"
    /\ customer_type = NoneStr
    /\ last.result.customer_type = "Other"
    /\ Len(messages) = 2

WouldMatch(analysis, new_type, user_message) ==
    find_matching_products(catalog, new_type, user_message,
                           budget_split(analysis.extracted_info).computer_budget,
                           analysis.extracted_info.product_type,
                           analysis.extracted_info.category, 5)

\* C11: a turn whose text generator fails with LLMProviderError still
\* completes normally and persists an assistant turn.  At the clarification
\* step the reply is the suggested question of the analysis; at the
\* recommendation step (no slot missing and the catalog filter has an item)
\* the reply is the template built from the main and upsell items, with the
\* main item's price; nothing is raised.
C11_GeneratorFailureFallsBack ==
    [][\A user_message \in SessionMessages, llm \in LLMOutcomes :
          (~llm.ok /\ PassesGate(user_message) /\ ProcessMessage(user_message, llm)) =>
              LET analysis == last'.analysis
                  found == WouldMatch(analysis, customer_type', user_message) IN
              (analysis.needs_clarification \/ found # <<>>) =>
                  /\ last'.raised = NoneStr
                  /\ Len(messages') = Len(messages) + 2
                  /\ messages'[Len(messages')] =
                         AssistantRow(last'.result.assistant_message)
                  /\ IF analysis.needs_clarification
                     THEN last'.result.assistant_message = analysis.suggested_question
                     ELSE /\ last'.result.assistant_message =
                                 generate_template_recommendation(
                                     found[1], last'.result.upsell_item)
                          /\ HasAny(last'.result.assistant_message,
                                    {PriceStr(found[1].price)})]_vars

\* C14: a turn persists at most one Recommendation row, and it persists
\* one exactly when the turn is in-topic, no required slot is missing and
\* the catalog filter has at least one item for it; on those turns
\* recommended_items holds exactly the first (cheapest) item of the filter
\* result, which is the persisted main item, and on every other turn
\* recommended_items is empty and no row is persisted.
C14_OneRecommendationPerTurn ==
    [][IF ~last'.analysis.redirect_needed /\ last'.analysis.has_enough_info
          /\ WouldMatch(last'.analysis, customer_type', last'.user_message) # <<>>
       THEN LET found == WouldMatch(last'.analysis, customer_type',
                                    last'.user_message) IN
            /\ Len(recommendations') = Len(recommendations) + 1
            /\ SubSeq(recommendations', 1, Len(recommendations)) = recommendations
            /\ recommendations'[Len(recommendations')].product_id = found[1].id
            /\ last'.result.recommended_items = <<found[1]>>
       ELSE /\ recommendations' = recommendations
            /\ last'.result.recommended_items = <<>>]_vars

\* C15: a process_message call that returns normally appends exactly two
\* rows to the session's history, the user message and then one assistant
\* row whose text is the returned assistant_message; no call, returning or
\* raising, changes or removes a row written earlier.
C15_HistoryAppendOnly ==
    [][/\ Len(messages') >= Len(messages)
       /\ SubSeq(messages', 1, Len(messages)) = messages
       /\ last'.raised = NoneStr =>
              messages' = messages \o <<UserRow(last'.user_message),
                                        AssistantRow(last'.result.assistant_message)>>]_vars

\* a second turn that returned normally, after a first that did: four rows,
\* alternating user and assistant
C15_Witness ==
    /\ turns = 2
    /\ last.raised = NoneStr
    /\ Len(messages) = 4
    /\ messages[1].role = "user" /\ messages[2].role = "assistant"
    /\ messages[3] = UserRow(last.user_message)
    /\ messages[4] = AssistantRow(last.result.assistant_message)
    /\ messages[4].content # <<>>

-----------------------------------------------------------------------------
(* Calls of find_matching_products, of select_upsell, of                     *)
(* identify_from_conversation and of                                        *)
(* _generate_recommendation_with_guardrails on arbitrary arguments          *)

\* largest limit handed to find_matching_products
MaxLimit == 2

\* product tables of the matcher calls: those of the sessions, and one with
\* a computer whose GPU is a GeForce, a computer without specs and a
\* computer whose GPU string has no marker at all
MatcherCatalogs ==
    Catalogs \cup
    {Products \cup
     {[id |-> 7, brand |-> "Dell", product_type |-> "desktop", category |-> "computer",
       price |-> 3000, stock |-> 2, has_specs |-> TRUE, ram_gb |-> 32,
       gpu |-> <<"nvidia", "geforce", "gtx">>],
      [id |-> 8, brand |-> "HP", product_type |-> "laptop", category |-> "computer",
       price |-> 2000, stock |-> 2, has_specs |-> FALSE, ram_gb |-> 0,
       gpu |-> <<>>],
      [id |-> 9, brand |-> "Lenovo", product_type |-> "desktop", category |-> "computer",
       price |-> 3200, stock |-> 1, has_specs |-> TRUE, ram_gb |-> 8,
       gpu |-> <<"intel", "arc">>]}}

\* the message argument of the matcher calls
MatcherMessages ==
    {<<"laptop">>,
     <<"gaming", "laptop">>,
     <<"computer", "תקציב", "3000">>,
     <<"lenovo", "laptop">>,
     <<"desktop">>,
     <<"mouse">>}

\* answers of the text generator to the recommendation prompt: those of the
\* sessions, and answers that tag the price with the shekel sign, as the
\* prompt asks (line 438), or state two prices
ReplyOutcomes ==
    LLMOutcomes \cup
    {[ok |-> TRUE, marker |-> TRUE, price |-> k] :
        k \in {"real_shekel", "wrong_shekel", "wrong_then_real"}}

\* product tables of the upsell calls: that of the sessions, one with more
\* accessories (a cheaper and a dearer mouse, a keyboard, a bag that is out
\* of stock), and one without accessories
UpsellCatalogs ==
    {Products,
     Products \cup
     {[id |-> 10, brand |-> "HP", product_type |-> "accessory", category |-> "mouse",
       price |-> 40, stock |-> 2, has_specs |-> FALSE, ram_gb |-> 0, gpu |-> <<>>],
      [id |-> 11, brand |-> "Dell", product_type |-> "accessory", category |-> "mouse",
       price |-> 1200, stock |-> 2, has_specs |-> FALSE, ram_gb |-> 0, gpu |-> <<>>],
      [id |-> 12, brand |-> "Dell", product_type |-> "accessory",
       category |-> "keyboard",
       price |-> 150, stock |-> 3, has_specs |-> FALSE, ram_gb |-> 0, gpu |-> <<>>],
      [id |-> 13, brand |-> "HP", product_type |-> "accessory", category |-> "bag",
       price |-> 90, stock |-> 0, has_specs |-> FALSE, ram_gb |-> 0, gpu |-> <<>>]},
     {p \in Products : p.product_type # "accessory"}}

\* the histories handed to select_upsell: none, user turns with and without
\* an accessory keyword, an assistant turn with one, and user turns naming
\* two accessory categories
UpsellHistories ==
    {<<>>,
     <<[role |-> "user", content |-> <<"student", "laptop", "תקציב", "3000">>]>>,
     <<[role |-> "user", content |-> <<"mouse">>]>>,
     <<[role |-> "user", content |-> <<"laptop">>],
       [role |-> "assistant", content |-> <<"generated", "headset">>],
       [role |-> "user", content |-> <<"keyboard">>]>>,
     <<[role |-> "user", content |-> <<"gaming", "headset", "80">>],
       [role |-> "assistant", content |-> <<"generated">>],
       [role |-> "user", content |-> <<"laptop", "bag">>]>>,
     <<[role |-> "user", content |-> <<"laptop", "bag">>]>>}

\* the price ceilings handed to select_upsell: line 179 passes 1000 or a
\* quarter of a budget that is not zero
UpsellCeilings == {50, 120, 1000}

\* the user texts handed to identify_from_conversation: no keyword, one
\* medium keyword, two medium keywords, strong keywords of one and of two
\* customer types, a medium keyword that two customer types share
IdentifyMessages ==
    {<<"hello">>,
     <<"rtx">>,
     <<"coding", "software">>,
     <<"student">>,
     <<"gaming", "office">>,
     <<"student", "exam", "gaming">>,
     <<"email">>,
     <<"excel">>,
     <<"youtube">>}

\* longest list of earlier user texts handed to identify_from_conversation
MaxUserTexts == 2

IdentifyHistories ==
    UNION {[1..n -> IdentifyMessages] : n \in 0..MaxUserTexts}

InitCalls ==
    /\ session_exists = FALSE
    /\ customer_type = NoneStr
    /\ messages = <<>>
    /\ recommendations = <<>>
    /\ last = [outcome |-> NoneStr]
    /\ turns = 0
    /\ fm_msg = <<>>
    /\ fm_history = <<>>
    /\ fm_out = NotCalled
    /\ requests = <<>>
    /\ pc = <<>>
    /\ running = 0
    /\ call_result = NotReturned
    /\ \/ /\ catalog \in MatcherCatalogs
          /\ call_args \in [called : {TRUE}, fn : {"find_matching_products"},
                            customer_type :
                                {customer_types[i] : i \in DOMAIN customer_types},
                            message : MatcherMessages,
                            max_budget : {NoneNum, 3000, 5000},
                            product_type : {NoneStr, "laptop", "desktop"},
                            category : {NoneStr, "computer", "mouse"},
                            limit : 1..MaxLimit]
       \/ /\ catalog \in UpsellCatalogs
          /\ call_args \in [called : {TRUE}, fn : {"select_upsell"},
                            main_product : {p \in catalog : p.stock >= 1},
                            customer_type : {"Student", "Gamer", "Business"},
                            conversation_history : UpsellHistories,
                            max_upsell_price : UpsellCeilings,
                            requested_accessory :
                                {NoneStr, "mouse", "headset", "keyboard"}]
       \/ /\ catalog = Products
          /\ call_args \in [called : {TRUE}, fn : {"identify_from_conversation"},
                            current_message : IdentifyMessages,
                            conversation_history : IdentifyHistories]
       \/ /\ catalog = Products
          /\ call_args \in [called : {TRUE},
                            fn : {"generate_recommendation_with_guardrails"},
                            main_product : Products,
                            upsell_product :
                                {NoProduct} \cup
                                {p \in Products : p.product_type = "accessory"},
                            llm : ReplyOutcomes]

\* one call of ProductMatcher.find_matching_products
FindMatchingProducts ==
    /\ call_args.fn = "find_matching_products"
    /\ call_result = NotReturned
    /\ call_result' =
           [returned |-> TRUE,
            value |-> find_matching_products(
                          catalog, call_args.customer_type, call_args.message,
                          call_args.max_budget, call_args.product_type,
                          call_args.category, call_args.limit)]
    /\ UNCHANGED <<call_args, svc_vars, fm_vars, srv_vars>>

\* one call of RecommendationService._generate_recommendation_with_guardrails
GenerateRecommendation ==
    /\ call_args.fn = "generate_recommendation_with_guardrails"
    /\ call_result = NotReturned
    /\ call_result' =
           [returned |-> TRUE,
            value |-> generate_recommendation_with_guardrails(
                          call_args.main_product, call_args.upsell_product,
                          call_args.llm)]
    /\ UNCHANGED <<call_args, svc_vars, fm_vars, srv_vars>>

\* one call of UpsellSelector.select_upsell
SelectUpsell ==
    /\ call_args.fn = "select_upsell"
    /\ call_result = NotReturned
    /\ call_result' =
           [returned |-> TRUE,
            value |-> select_upsell(
                          catalog, call_args.main_product, call_args.customer_type,
                          call_args.conversation_history, call_args.max_upsell_price,
                          call_args.requested_accessory)]
    /\ UNCHANGED <<call_args, svc_vars, fm_vars, srv_vars>>

\* one call of CustomerIdentifier.identify_from_conversation
IdentifyFromConversation ==
    /\ call_args.fn = "identify_from_conversation"
    /\ call_result = NotReturned
    /\ call_result' =
           [returned |-> TRUE,
            value |-> identify_from_conversation(call_args.current_message,
                                                 call_args.conversation_history)]
    /\ UNCHANGED <<call_args, svc_vars, fm_vars, srv_vars>>

NextCalls ==
    \/ FindMatchingProducts
    \/ SelectUpsell
    \/ IdentifyFromConversation
    \/ GenerateRecommendation

SpecCalls == InitCalls /\ [][NextCalls]_vars

-----------------------------------------------------------------------------
(* Properties of find_matching_products and of                              *)
(* _generate_recommendation_with_guardrails, checked under SpecCalls        *)

ReplyReturned ==
    /\ call_args.called
    /\ call_args.fn = "generate_recommendation_with_guardrails"
    /\ call_result.returned

\* the positions of the numbers of a text that carry a currency tag
CurrencyTagged(text) ==
    {i \in DOMAIN text :
        IsPriceWord(text[i]) /\ i + 1 <= Len(text) /\ text[i + 1] \in {"ILS", "₪"}}

\* C13: a recommendation text that came from the text generator and went
\* through _validate_response, and that contains a currency-tagged number,
\* has the main item's catalog price as its first currency-tagged number.
C13_FirstTaggedPriceIsReal ==
    (ReplyReturned /\ call_args.llm.ok /\ CurrencyTagged(call_result.value) # {}) =>
        call_result.value[MinOf(CurrencyTagged(call_result.value))] =
            PriceStr(call_args.main_product.price)

MatcherReturned ==
    /\ call_args.called
    /\ call_args.fn = "find_matching_products"
    /\ call_result.returned

\* the budget ceiling of the call: the argument, else the message's budget
Ceiling ==
    IF call_args.max_budget # NoneNum THEN call_args.max_budget
    ELSE extract_budget(call_args.message)

\* the product type of the call: the argument, else the message's
RequestedType ==
    IF call_args.product_type # NoneStr THEN call_args.product_type
    ELSE extract_product_type(call_args.message)

\* the category of the call: the argument, else computer on a computer word
ResolvedCategory ==
    IF call_args.category # NoneStr THEN call_args.category
    ELSE get_customer_filters(call_args.customer_type, call_args.message).category

\* the rows the repository query of the call returns, before the spec gate
BaseQuery ==
    query_products(catalog,
                   matcher_filters(call_args.customer_type, call_args.message,
                                   call_args.max_budget, call_args.product_type,
                                   call_args.category))

\* what the call returns when the limit is no smaller than the catalog
Unlimited ==
    find_matching_products(catalog, call_args.customer_type, call_args.message,
                           call_args.max_budget, call_args.product_type,
                           call_args.category, Cardinality(catalog))

\* C17: every item find_matching_products returns is a catalog item with
\* stock >= 1, with price <= the budget ceiling when a budget is known, of
\* the requested product type when one is known and of the resolved
\* category when one is resolved; the list is in ascending price order,
\* holds at most limit items, and is the first limit items of the list the
\* call returns without truncation.
C17_MatcherResultIsFiltered ==
    MatcherReturned =>
        /\ \A i \in DOMAIN call_result.value :
               /\ call_result.value[i] \in catalog
               /\ call_result.value[i].stock >= 1
               /\ TruthyNum(Ceiling) => call_result.value[i].price <= Ceiling
               /\ RequestedType # NoneStr =>
                      call_result.value[i].product_type = RequestedType
               /\ ResolvedCategory # NoneStr =>
                      call_result.value[i].category = ResolvedCategory
        /\ \A i, j \in DOMAIN call_result.value :
               i < j => call_result.value[i].price < call_result.value[j].price
        /\ Len(call_result.value) <= call_args.limit
        /\ call_result.value =
               SubSeq(Unlimited, 1, Min(call_args.limit, Len(Unlimited)))

\* a truncated result under a budget, a product type and a category, with
\* an out-of-stock item and an item over the budget left out
C17_Witness ==
    /\ MatcherReturned
    /\ Len(call_result.value) = call_args.limit
    /\ Len(Unlimited) > call_args.limit
    /\ TruthyNum(Ceiling)
    /\ RequestedType # NoneStr
    /\ ResolvedCategory # NoneStr
    /\ \E p \in catalog : /\ p.stock = 0
                          /\ p.price <= Ceiling
                          /\ p.product_type = RequestedType
    /\ \E p \in catalog : /\ p.stock >= 1
                          /\ p.price > Ceiling
                          /\ p.product_type = RequestedType

\* C18: for customer type Engineer every computer that
\* find_matching_products returns has ram_gb >= 16, so of an 8 GB and a
\* 16 GB computer that both pass the repository query only the 16 GB one is
\* returned.
C18_EngineerRamGate ==
    (MatcherReturned /\ call_args.customer_type = "Engineer") =>
        /\ \A i \in DOMAIN call_result.value :
               is_computer(call_result.value[i]) =>
                   call_result.value[i].ram_gb >= 16
        /\ \A i \in DOMAIN BaseQuery :
               (is_computer(BaseQuery[i]) /\ BaseQuery[i].ram_gb < 16) =>
                   ~InSeq(BaseQuery[i], call_result.value)

\* the query finds an 8 GB and a 16 GB computer, and the 16 GB one alone is
\* returned
C18_Witness ==
    /\ MatcherReturned
    /\ call_args.customer_type = "Engineer"
    /\ \E i \in DOMAIN BaseQuery :
           is_computer(BaseQuery[i]) /\ BaseQuery[i].has_specs /\ BaseQuery[i].ram_gb = 8
    /\ Len(call_result.value) = 1
    /\ call_result.value[1].ram_gb = 16
    /\ InSeq(call_result.value[1], BaseQuery)

\* a GPU string with a discrete marker and no integrated marker
DiscreteGpu(product) ==
    /\ HasAny(product.gpu, {"rtx", "radeon", "nvidia", "geforce"})
    /\ ~HasAny(product.gpu, {"vega", "uhd", "iris"})

\* C19: for customer type Gamer every computer that find_matching_products
\* returns has a GPU string with a discrete marker (rtx, radeon, nvidia,
\* geforce) and without an integrated marker (vega, uhd, iris); a computer
\* whose GPU string has an integrated marker is left out even when it has a
\* discrete term too.
C19_GamerGpuGate ==
    (MatcherReturned /\ call_args.customer_type = "Gamer") =>
        /\ \A i \in DOMAIN call_result.value :
               is_computer(call_result.value[i]) => DiscreteGpu(call_result.value[i])
        /\ \A i \in DOMAIN BaseQuery :
               (is_computer(BaseQuery[i])
                /\ HasAny(BaseQuery[i].gpu, {"vega", "uhd", "iris"})) =>
                   ~InSeq(BaseQuery[i], call_result.value)

\* the query finds the Radeon Vega desktop, which is left out, and a
\* GeForce desktop, which is returned
C19_Witness ==
    /\ MatcherReturned
    /\ call_args.customer_type = "Gamer"
    /\ \E i \in DOMAIN BaseQuery :
           /\ HasAny(BaseQuery[i].gpu, {"radeon"})
           /\ HasAny(BaseQuery[i].gpu, {"vega"})
           /\ ~InSeq(BaseQuery[i], call_result.value)
    /\ \E i \in DOMAIN call_result.value :
           HasAny(call_result.value[i].gpu, {"geforce"})

\* C20: when a gaming keyword is in the message, every computer that
\* find_matching_products returns has a discrete GPU, whatever the customer
\* type is.
C20_GamingKeywordGate ==
    (MatcherReturned /\ HasAny(call_args.message, gaming_keywords)) =>
        \A i \in DOMAIN call_result.value :
            is_computer(call_result.value[i]) => DiscreteGpu(call_result.value[i])

-----------------------------------------------------------------------------
(* The POST /message endpoint serving requests of one session *)

\* number of requests sent for the session
MaxRequests == 2

\* the messages of the requests: an off-topic one, one that is answered
\* with a clarifying question, one that resolves every slot
ServerMessages ==
    {<<"hello">>, <<"computer">>, <<"student", "laptop", "תקציב", "3000">>}

\* a handler that runs in a worker thread starts whatever else is running
event_loop_free_threaded(running_) == TRUE

\* api.py line 71: the handler is a coroutine (async def) that calls the
\* service synchronously and never awaits, so the event loop runs one
\* handler body at a time, to its end
event_loop_free(running_) == running_ = 0

InitServer ==
    /\ session_exists = FALSE
    /\ customer_type = NoneStr
    /\ messages = <<>>
    /\ recommendations = <<>>
    /\ catalog = Products
    /\ last = [outcome |-> NoneStr]
    /\ turns = 0
    /\ fm_msg = <<>>
    /\ fm_history = <<>>
    /\ fm_out = NotCalled
    /\ call_args = NoCall
    /\ call_result = NotReturned
    /\ requests \in [1..MaxRequests ->
                        [user_message : ServerMessages, found : {FALSE},
                         created : {FALSE}, history : {<<>>}, new_type : {NoneStr}]]
    /\ pc = [q \in 1..MaxRequests |-> "arrived"]
    /\ running = 0

\* the event loop starts the handler of a received request
Dispatch(q) ==
    /\ pc[q] = "arrived"
    /\ event_loop_free(running)
    /\ running' = q
    /\ pc' = [pc EXCEPT ![q] = "entered"]
    /\ UNCHANGED <<requests, svc_vars, fm_vars, fn_vars>>

\* line 556: session_repo.get_session_by_id
GetSession(q) ==
    /\ pc[q] = "entered"
    /\ requests' = [requests EXCEPT ![q].found = session_exists]
    /\ pc' = [pc EXCEPT ![q] = "looked_up"]
    /\ UNCHANGED <<running, svc_vars, fm_vars, fn_vars>>

\* lines 557-558: session_repo.create_session when none was found; the
\* column session_id is unique, so a second INSERT raises IntegrityError,
\* which the handler at lines 253-256 turns into RecommendationError
CreateSession(q) ==
    /\ pc[q] = "looked_up"
    /\ IF requests[q].found
       THEN /\ pc' = [pc EXCEPT ![q] = "session"]
            /\ UNCHANGED <<requests, running, session_exists, last>>
       ELSE IF ~session_exists
       THEN /\ session_exists' = TRUE
            /\ requests' = [requests EXCEPT ![q].created = TRUE]
            /\ pc' = [pc EXCEPT ![q] = "session"]
            /\ UNCHANGED <<running, last>>
       ELSE /\ pc' = [pc EXCEPT ![q] = "failed"]
            /\ running' = 0
            /\ last' = [outcome |-> "error", raised |-> "RecommendationError"]
            /\ UNCHANGED <<requests, session_exists>>
    /\ UNCHANGED <<customer_type, messages, recommendations, catalog, turns>>
    /\ UNCHANGED <<fm_vars, fn_vars>>

\* Step 2 (lines 83-88): the user row is written and committed
SaveUserMessage(q) ==
    /\ pc[q] = "session"
    /\ messages' = Append(messages, UserRow(requests[q].user_message))
    /\ pc' = [pc EXCEPT ![q] = "saved"]
    /\ UNCHANGED <<requests, running, session_exists, customer_type,
                   recommendations, catalog, last, turns, fm_vars, fn_vars>>

\* the customer type of the turn: Step 6 runs on in-topic turns only
type_of_turn(stored_type, user_message, history, conversation_state) ==
    IF conversation_state.redirect_needed THEN stored_type
    ELSE identify_step(stored_type, user_message, history)

\* Steps 5 and 7-12 on the history and the type of the request
rest_of_turn(history, new_type, recs, rows, user_message, conversation_state, llm) ==
    IF conversation_state.redirect_needed
    THEN off_topic_turn(history, new_type, recs, user_message, conversation_state)
    ELSE in_topic_turn(history, new_type, recs, rows, user_message,
                       conversation_state, llm)

request_turn(request, recs, rows, llm) ==
    rest_of_turn(request.history, request.new_type, recs, rows,
                 request.user_message,
                 analyze_conversation_state(request.user_message, request.history),
                 llm)

\* the rest of the turn reaches llm.generate_with_context (line 316 or 463)
calls_generator(request, recs, rows) ==
    request_turn(request, recs, rows,
                 CHOOSE llm \in LLMOutcomes : ~llm.ok).trace.llm_called

\* Steps 3-7 (lines 91-147): the history is read back and analysed, the
\* customer type of an in-topic turn is identified and stored, and the
\* handler goes on to the reply, calling the text generator if the reply
\* needs it
Analyse(q) ==
    /\ pc[q] = "saved"
    /\ \E new_type \in {type_of_turn(customer_type, requests[q].user_message, messages,
                                     analyze_conversation_state(
                                         requests[q].user_message, messages))} :
           /\ customer_type' = new_type
           /\ requests' = [requests EXCEPT ![q].history = messages,
                                           ![q].new_type = new_type]
    /\ pc' = [pc EXCEPT ![q] =
                  IF calls_generator(requests'[q], recommendations, catalog)
                  THEN "generating" ELSE "replying"]
    /\ UNCHANGED <<running, session_exists, messages, recommendations, catalog,
                   last, turns, fm_vars, fn_vars>>

\* the handler ends: the rows the turn wrote after its history read are
\* appended, and the event loop is free again
EndOfTurn(q, r) ==
    /\ messages' = messages \o SubSeq(r.messages, Len(requests[q].history) + 1,
                                      Len(r.messages))
    /\ recommendations' = r.recommendations
    /\ last' = r.trace
    /\ pc' = [pc EXCEPT ![q] = IF r.trace.raised = NoneStr THEN "done" ELSE "failed"]
    /\ running' = 0
    /\ UNCHANGED <<requests, session_exists, customer_type, catalog, turns>>
    /\ UNCHANGED <<fm_vars, fn_vars>>

\* a turn that does not call the text generator runs to its end: the
\* off-topic reply (lines 118-128) or the exception handler (lines 253-256)
Reply(q) ==
    /\ pc[q] = "replying"
    /\ \E r \in {request_turn(requests[q], recommendations, catalog,
                              CHOOSE llm \in LLMOutcomes : ~llm.ok)} :
           EndOfTurn(q, r)

\* a turn blocked in llm.generate_with_context goes on when the call
\* returns a text or raises LLMProviderError; the call is made without a
\* timeout (openai_provider.py lines 123-128)
GeneratorAnswers(q, llm) ==
    /\ pc[q] = "generating"
    /\ \E r \in {request_turn(requests[q], recommendations, catalog, llm)} :
           EndOfTurn(q, r)

NextServer ==
    \/ \E q \in DOMAIN requests : Dispatch(q)
    \/ \E q \in DOMAIN requests : GetSession(q)
    \/ \E q \in DOMAIN requests : CreateSession(q)
    \/ \E q \in DOMAIN requests : SaveUserMessage(q)
    \/ \E q \in DOMAIN requests : Analyse(q)
    \/ \E q \in DOMAIN requests : Reply(q)
    \/ \E q \in DOMAIN requests, llm \in LLMOutcomes : GeneratorAnswers(q, llm)

\* request q has a step that the server takes on its own: its handler can
\* be started, or it is running and not blocked in the text generator
CanStep(q) ==
    \/ pc[q] = "arrived" /\ event_loop_free(running)
    \/ pc[q] \in {"entered", "looked_up", "session", "saved", "replying"}

\* a step of the server's own: the handler of such a request advances
HandlerStep ==
    \E q \in 1..MaxRequests :
        /\ CanStep(q)
        /\ \E next \in {"entered", "looked_up", "session", "saved", "replying",
                        "generating", "done", "failed"} :
               pc' = [pc EXCEPT ![q] = next]

\* the server's own steps are taken when they can be; nothing obliges the
\* text generator to answer
SpecServer == InitServer /\ [][NextServer]_vars /\ WF_pc(HandlerStep)

-----------------------------------------------------------------------------
(* Properties of the endpoint, checked under SpecServer *)

InProgress(q) == pc[q] \notin {"arrived", "done", "failed"}

\* C12: every turn a handler has started eventually completes: its request
\* ends with a persisted reply and a result, or with an error, even when
\* the text generator never answers.
C12_EveryTurnCompletes ==
    \A q \in 1..MaxRequests : (pc[q] = "entered") ~> (pc[q] \in {"done", "failed"})

\* the turn of request p returned normally and both its rows are in history
BothRowsIn(p, history) ==
    \E i \in 1..(Len(history) - 1) :
        /\ history[i] = UserRow(requests[p].user_message)
        /\ history[i + 1].role = "assistant"

\* C16: two handlers of one session never run interleaved.  At most one
\* request is between the start and the end of its handler; the history a
\* turn reads back is everything persisted so far, ends with the turn's own
\* user row and holds the user row and the assistant row of every turn that
\* returned before; and at most one request creates the session row.
C16_TurnsDoNotInterleave ==
    /\ \A p, q \in DOMAIN requests : (InProgress(p) /\ InProgress(q)) => p = q
    /\ \A q \in DOMAIN requests :
           pc[q] \in {"replying", "generating"} =>
               /\ requests[q].history = messages
               /\ messages[Len(messages)] = UserRow(requests[q].user_message)
               /\ \A p \in DOMAIN requests \ {q} :
                      /\ pc[p] \in {"arrived", "done", "failed"}
                      /\ pc[p] = "done" => BothRowsIn(p, requests[q].history)
    /\ Cardinality({q \in DOMAIN requests : requests[q].created}) <= 1
    /\ \A q \in DOMAIN requests :
           (pc[q] \notin {"arrived", "entered", "looked_up"}) => session_exists

\* the second request reads its history after the first returned: it found
\* the session the first created, and reads the two rows of the first turn
\* and its own user row
C16_Witness ==
    \E p, q \in DOMAIN requests :
        /\ pc[p] = "done"
        /\ requests[p].created
        /\ pc[q] \in {"replying", "generating"}
        /\ requests[q].found
        /\ ~requests[q].created
        /\ Len(requests[q].history) = 3
        /\ requests[q].history[1] = UserRow(requests[p].user_message)
        /\ requests[q].history[2].role = "assistant"
        /\ requests[q].history[3] = UserRow(requests[q].user_message)

-----------------------------------------------------------------------------
(* The spec gate and the accessories, checked under SpecCalls *)

\* C21: for customer type Engineer or Gamer an accessory that the
\* repository query returns is not removed by the spec gate: an accessory
\* among the first limit rows of the query is in the returned list.
C21_GateKeepsAccessories ==
    (MatcherReturned /\ call_args.customer_type \in {"Engineer", "Gamer"}) =>
        \A i \in DOMAIN BaseQuery :
            (i <= call_args.limit /\ ~is_computer(BaseQuery[i])) =>
                InSeq(BaseQuery[i], call_result.value)

-----------------------------------------------------------------------------
(* Properties of select_upsell, checked under SpecCalls *)

UpsellReturned ==
    /\ call_args.called
    /\ call_args.fn = "select_upsell"
    /\ call_result.returned

\* the in-stock accessories of the catalog within the price ceiling of the
\* call
Offered ==
    {p \in catalog : /\ p.product_type = "accessory"
                     /\ p.stock >= 1
                     /\ p.price <= call_args.max_upsell_price}

OfferedIn(category) == {p \in Offered : p.category = category}

Cheapest(items) == CHOOSE p \in items : \A q \in items : p.price <= q.price

\* the accessory categories with a keyword in a user turn of the history
NamedByUser ==
    {accessory_order[c] : c \in
        {c \in DOMAIN accessory_order :
            \E i \in DOMAIN call_args.conversation_history :
                /\ call_args.conversation_history[i].role = "user"
                /\ HasAny(call_args.conversation_history[i].content,
                          accessory_keywords(accessory_order[c]))}}

\* the category the history scan of the call settles on
HistoryCategory == detect_explicit_accessory_request(call_args.conversation_history)

\* the preference list of the call, by main product and customer type
Preferences ==
    (CASE call_args.customer_type = "Gamer" -> <<"mouse", "headset">>
       [] call_args.customer_type = "Student" -> <<"mouse", "bag">>
       [] OTHER -> <<>>)
    \o (CASE call_args.main_product.product_type = "laptop" ->
                 <<"mouse", "bag", "headset">>
          [] call_args.main_product.product_type = "desktop" ->
                 <<"keyboard", "mouse", "headset">>
          [] OTHER -> <<>>)

\* the positions of the preference list whose category has an offer
PreferredWithOffer == {k \in DOMAIN Preferences : OfferedIn(Preferences[k]) # {}}

RequestedTier ==
    IF call_args.requested_accessory = NoneStr THEN {}
    ELSE OfferedIn(call_args.requested_accessory)

HistoryTier ==
    IF NamedByUser = {} THEN {} ELSE OfferedIn(HistoryCategory)

PreferenceTier ==
    IF PreferredWithOffer = {} THEN {}
    ELSE OfferedIn(Preferences[MinOf(PreferredWithOffer)])

\* the first tier of the cascade that is not empty
FirstTier ==
    IF RequestedTier # {} THEN RequestedTier
    ELSE IF HistoryTier # {} THEN HistoryTier
    ELSE IF PreferenceTier # {} THEN PreferenceTier
    ELSE Offered

C23_UpsellIsOfferedAccessory ==
    (UpsellReturned /\ call_result.value # NoProduct) =>
        /\ call_result.value \in catalog
        /\ call_result.value.product_type = "accessory"
        /\ call_result.value.stock >= 1
        /\ call_result.value.price <= call_args.max_upsell_price

\* the requested category has an item over the ceiling only, the category
\* named in the history has an item out of stock only, and an accessory
\* within the ceiling is returned
C23_Witness ==
    /\ UpsellReturned
    /\ call_result.value # NoProduct
    /\ call_args.requested_accessory # NoneStr
    /\ RequestedTier = {}
    /\ \E p \in catalog : /\ p.category = call_args.requested_accessory
                          /\ p.stock >= 1
                          /\ p.price > call_args.max_upsell_price
    /\ NamedByUser # {}
    /\ HistoryTier = {}
    /\ \E p \in catalog : /\ p.category = HistoryCategory
                          /\ p.stock = 0
                          /\ p.price <= call_args.max_upsell_price

\* C30: the item select_upsell returns for a recommendation is never the
\* main item of the recommendation, also when the main item is an
\* accessory and its category is named in the history.
C30_UpsellIsNotMainItem ==
    (UpsellReturned /\ call_result.value # NoProduct) =>
        call_result.value.id # call_args.main_product.id

-----------------------------------------------------------------------------
(* Further properties of process_message, checked under Spec *)

\* the merged slot state of the turn bundles an accessory with a computer
\* request and a budget
BundledAccessory ==
    /\ TruthyStr(last.analysis.extracted_info.requested_accessory)
    /\ TruthyNum(last.analysis.extracted_info.budget_amount)

\* the ceilings lines 174-186 compute on the turn
TurnCeilings == budget_split(last.analysis.extracted_info)

\* C24: on a turn with no missing slot whose slot state bundles an
\* accessory with a computer request and a budget B, the ceiling handed to
\* the catalog search is 75% of B and the upsell ceiling is 25% of B, the
\* two adding up to B; without a bundled accessory the search ceiling is B
\* and the upsell ceiling is 1000.
C24_BudgetSplit ==
    EnoughInfoTurn =>
        /\ last.matcher_call.called
        /\ last.matcher_call.max_budget = TurnCeilings.computer_budget
        /\ IF BundledAccessory
           THEN /\ 4 * TurnCeilings.computer_budget =
                       3 * last.analysis.extracted_info.budget_amount
                /\ 4 * TurnCeilings.accessory_budget =
                       last.analysis.extracted_info.budget_amount
                /\ TurnCeilings.computer_budget + TurnCeilings.accessory_budget =
                       last.analysis.extracted_info.budget_amount
           ELSE /\ TurnCeilings.computer_budget =
                       last.analysis.extracted_info.budget_amount
                /\ TurnCeilings.accessory_budget = 1000

\* a turn that bundles a mouse with a gaming laptop and a budget of 5000:
\* the matcher is called with a ceiling of 3750, and 1250 is left for the
\* upsell
C24_Witness ==
    /\ EnoughInfoTurn
    /\ BundledAccessory
    /\ last.analysis.extracted_info.budget_amount = 5000
    /\ last.matcher_call.called
    /\ last.matcher_call.max_budget = 3750
    /\ TurnCeilings.accessory_budget = 1250

-----------------------------------------------------------------------------
(* Properties of identify_from_conversation, checked under SpecCalls *)

IdentifyReturned ==
    /\ call_args.called
    /\ call_args.fn = "identify_from_conversation"
    /\ call_result.returned

\* the words of all the user text of the call
AllUserWords ==
    {call_args.current_message[i] : i \in DOMAIN call_args.current_message}
    \cup UNION {{call_args.conversation_history[n][i] :
                    i \in DOMAIN call_args.conversation_history[n]} :
                n \in DOMAIN call_args.conversation_history}

\* 3 for each strong keyword present, 1 for each medium keyword present
Points(ct) ==
    3 * Cardinality(strong_keywords(ct) \cap AllUserWords)
    + Cardinality(medium_keywords(ct) \cap AllUserWords)

Archetypes == 1..5

TopScore ==
    CHOOSE s \in 0..30 :
        /\ \E k \in Archetypes : Points(customer_types[k]) = s
        /\ \A k \in Archetypes : Points(customer_types[k]) <= s

\* the archetypes of highest score, by position in the declaration order
Leaders == {k \in Archetypes : Points(customer_types[k]) = TopScore}

\* C25: identify_from_conversation scores every archetype over all the
\* user text (3 per strong keyword present, 1 per medium keyword present);
\* it returns Other with Other's profile when the highest score is below
\* 2, and otherwise the archetype of highest score with its own profile, a
\* tie going to the archetype declared first.
C25_HighestScoreWins ==
    IdentifyReturned =>
        IF TopScore < 2
        THEN /\ call_result.value.customer_type = "Other"
             /\ call_result.value.requirements = REQUIREMENTS_MAP("Other")
        ELSE /\ call_result.value.customer_type = customer_types[MinOf(Leaders)]
             /\ call_result.value.requirements =
                    REQUIREMENTS_MAP(customer_types[MinOf(Leaders)])

\* the keywords of the current message and of earlier user text make a tie
\* between two archetypes, neither declared first of all, and the one
\* declared first of the two is returned with its profile
C25_Witness ==
    /\ IdentifyReturned
    /\ call_args.conversation_history # <<>>
    /\ TopScore >= 4
    /\ Cardinality(Leaders) = 2
    /\ 1 \notin Leaders
    /\ call_result.value.customer_type = customer_types[MinOf(Leaders)]
    /\ call_result.value.requirements # REQUIREMENTS_MAP("Other")

-----------------------------------------------------------------------------
(* The clarifying question and the stage, checked under SpecFlow *)

\* the slot a question template asks about
AskedSlot(question) ==
    CASE question = <<>> -> NoneStr
      [] question[1] \in {"ask_use_case_headset", "ask_use_case_mouse",
                          "ask_use_case_keyboard", "ask_use_case_monitor",
                          "ask_use_case_bag", "ask_use_case_computer"} -> "use_case"
      [] question[1] \in {"ask_budget", "ask_budget_accessory"} -> "budget"
      [] question[1] \in {"ask_product_type", "ask_product_type_student",
                          "ask_product_type_gaming", "ask_product_type_other"} ->
             "product_type"
      [] OTHER -> NoneStr

ClarifyingStage ==
    InTopic /\ fm_out.stage \in {UNDERSTANDING_NEEDS, CLARIFYING_BUDGET,
                                 CLARIFYING_PREFERENCES}

\* C26, as the specification states it: on a turn whose stage is
\* UNDERSTANDING_NEEDS, CLARIFYING_BUDGET or CLARIFYING_PREFERENCES the
\* suggested question asks about use_case, budget or product_type
\* respectively.
C26_QuestionFollowsStage ==
    ClarifyingStage =>
        AskedSlot(fm_out.suggested_question) =
            CASE fm_out.stage = UNDERSTANDING_NEEDS -> "use_case"
              [] fm_out.stage = CLARIFYING_BUDGET -> "budget"
              [] OTHER -> "product_type"

\* C26, amended: the question asks about the first missing slot in the
\* order use_case, product_type, budget.  On UNDERSTANDING_NEEDS it asks
\* about use_case and on CLARIFYING_PREFERENCES about product_type; on
\* CLARIFYING_BUDGET it asks about product_type when that slot is missing
\* too, and about budget only when it is not.
C26_QuestionAsksProductTypeFirst ==
    ClarifyingStage =>
        AskedSlot(fm_out.suggested_question) =
            CASE fm_out.stage = UNDERSTANDING_NEEDS -> "use_case"
              [] fm_out.stage = CLARIFYING_BUDGET ->
                     IF InSeq("product_type", fm_out.missing_info)
                     THEN "product_type" ELSE "budget"
              [] OTHER -> "product_type"

\* the use case is known, budget and product type are missing: the stage
\* is CLARIFYING_BUDGET and the question asks about the product type
C26_Witness ==
    /\ ClarifyingStage
    /\ fm_out.stage = CLARIFYING_BUDGET
    /\ fm_out.missing_info = <<"budget", "product_type">>
    /\ AskedSlot(fm_out.suggested_question) = "product_type"

-----------------------------------------------------------------------------
(* Properties of the turns of one session, checked under Spec *)

\* the required slots that the merged slot state of an analysis resolves
ResolvedSlots(analysis) ==
    (IF analysis.extracted_info.has_use_case THEN {"use_case"} ELSE {})
    \cup (IF analysis.extracted_info.has_budget THEN {"budget"} ELSE {})
    \cup (IF analysis.extracted_info.has_product_type THEN {"product_type"} ELSE {})

\* C27: a required slot that the merged slot state of an in-topic turn
\* resolves is resolved in the merged slot state of the next in-topic turn
\* of the session, so missing_info does not name it again.
C27_SlotsStayResolved ==
    [][(/\ TurnDone
        /\ ~last.analysis.redirect_needed
        /\ ~last'.analysis.redirect_needed) =>
           /\ ResolvedSlots(last.analysis) \subseteq ResolvedSlots(last'.analysis)
           /\ \A i \in DOMAIN last'.analysis.missing_info :
                  last'.analysis.missing_info[i] \notin ResolvedSlots(last.analysis)]_vars

\* C28: a turn is analysed as RECOMMENDATION_GIVEN only if an earlier turn
\* of the session persisted a recommendation; a clarifying question (the
\* fallback questions included), the off-topic redirect and the no-match
\* reply never make a later turn RECOMMENDATION_GIVEN.
C28_RecommendationGivenAfterRecommendation ==
    [][(/\ turns' = turns + 1
        /\ ~last'.analysis.redirect_needed
        /\ last'.analysis.stage = RECOMMENDATION_GIVEN) =>
           recommendations # <<>>]_vars

\* C29: a call of process_message that fails with RecommendationError
\* leaves the persisted state of the session as it was before the call: no
\* user turn is appended without its assistant reply and the stored
\* customer type is unchanged, so the persisted history alternates user
\* turn, assistant turn.
C29_FailedCallLeavesStateUnchanged ==
    [][(turns' = turns + 1 /\ last'.raised = "RecommendationError") =>
           /\ messages' = messages
           /\ customer_type' = customer_type
           /\ \A i \in DOMAIN messages' :
                  messages'[i].role = IF i % 2 = 1 THEN "user" ELSE "assistant"]_vars

====
